---- MODULE Spec2Model ----
(***************************************************************************)
(* A model of the CSV ingestion service: the directory watcher            *)
(* (services/folder_monitor.py, tabs/tab4.py), its file transfer, and the  *)
(* per-profile loaders (processors/*.py).                                  *)
(*                                                                         *)
(* The module holds several specifications over one set of variables:      *)
(*   Spec          the watcher: monitoring sessions, detections, workers   *)
(*   SpecLive      the watcher under a fair scheduler                      *)
(*   SpecSchema    the watcher when a file of no known profile is dropped  *)
(*   SpecTransfer  one call of FolderMonitor._transfer_file_safely         *)
(*   SpecBatch     the batch-insert loaders (GLASSREPORT, CASING, ...)     *)
(*   SpecWork      the WORKORDER2 loader (replace on conflict)             *)
(*   SpecSummary   the ORDERSUMMARY loader (update if blank)               *)
(*   SpecWindows   the WINDOWSENTRY loader (update, then insert)           *)
(*   SpecFrames    the FRAMESCUTTING loader (insert unless present)        *)
(*   SpecHandler   DatabaseHandler.upload_csv_data on a glass table        *)
(*   SpecProvision the table provisioning step of two workers              *)
(*   SpecReconcile the provisioning step on tables that exist already      *)
(*   SpecJob       one call of processor.process and its connection        *)
(*   SpecSteps     _transfer_file_safely one system call at a time         *)
(*   SpecInject    the header injection of two workers                     *)
(*   SpecConfig    the watcher started under any configuration             *)
(*   SpecOdoo      the upload of one file to the ERP service               *)
(*   SpecNotify    the recipients of a duplicate notification              *)
(*   SpecHeaders   the header check of a file over repeated attempts       *)
(* A specification leaves the variables of the others at their initial     *)
(* value.                                                                  *)
(***************************************************************************)
EXTENDS Integers, Sequences, FiniteSets, TLC

(***************************************************************************)
(* Bounds.                                                                 *)
(***************************************************************************)
\* worker threads started by filesystem events during one run
MaxThreads == 2
\* FolderMonitor instances created by Tab4.start_monitoring during one run
MaxSessions == 2
\* files that appear under one path during one run
MaxFiles == 1

\* data rows of one .csv file
MaxRows == 2
\* rows of one table
MaxTable == 4
\* files one worker loads (provisioning steps it runs) during one run
MaxRuns == 2

\* The .csv paths of the monitored input directories.
Paths == {"in1/GLASSREPORT_1.csv", "in1/FRAMESCUTTING_1.csv", "in1/stock_list_1.csv"}

Sessions == 1..MaxSessions
\* Thread 0 is the thread of Tab4 (it runs start(), hence the startup scan);
\* 1..MaxThreads are the threads started by FileHandler.
UiThread == 0
Workers == 1..MaxThreads
Threads == {UiThread} \cup Workers

VARIABLES
    \* ---- the watcher (Spec)
    monitor,          \* Tab4.monitor: 0 is None, else the FolderMonitor instance
    created,          \* FolderMonitor instances constructed so far
    scanning,         \* start() is inside _process_existing_files
    scanLeft,         \* paths the glob of the startup scan has yet to visit
    observerOn,       \* the observer of the current instance is started
    processed_files,  \* per instance: FolderMonitor.processed_files
    thr,              \* per thread: where it is in process_file
    fs,               \* the filesystem: location -> content
    appeared,         \* per path: files that have appeared there so far
    rejected,         \* <<instance, path>>: a detection was turned away by the
                      \*   registry check during the job now in flight
    loads,            \* <<instance, path, file>> -> calls of processor.process
                      \*   since the path last had no detection outstanding
    kept,             \* <<instance, path, file>> -> of these, the jobs that
                      \*   ended with the file still under its path
    incoming,         \* the paths under which files are dropped during the run
    seen,             \* <<instance, file>>: process_file of the instance has
                      \*   taken the file up at least once
    config            \* the settings FolderMonitor reads: the path groups whose
                      \*   input and move paths are both set, whether the
                      \*   mysql credentials are set, and the error the last
                      \*   start_monitoring showed

VARIABLES
    \* ---- one call of _transfer_file_safely (SpecTransfer)
    tr,               \* the call: its arguments, the failures met, the result
    \* ---- the loaders (SpecBatch, SpecWork, SpecSummary, SpecWindows,
    \*      SpecFrames, SpecHandler)
    profile,          \* the processor, which names the table
    table,            \* the rows of the table, as committed, in the order of `id`
    file,             \* the data rows of the .csv file loaded last, as read
    res,              \* what upload_csv_data did with that file
    \* ---- the provisioning of the table (SpecProvision)
    columns,          \* per profile: the columns of its table; {} is no table
    prov              \* per worker: where it is in the provisioning step

monVars == <<monitor, created, scanning, scanLeft, observerOn, processed_files,
             thr, appeared, rejected, loads, kept, incoming, seen, config>>
dbVars == <<profile, table, file, res, columns, prov, config>>
vars == <<monVars, fs, tr, dbVars>>

(***************************************************************************)
(* The filesystem.  A location is In(p), the file under its own name in    *)
(* the input directory; Marked(p), that name with '.processed' appended;   *)
(* or Moved(p, k), the file's base name in the move directory, with '_k'   *)
(* before the extension when k > 0.                                        *)
(* A content is <<path, n>> for the n-th file that appeared under path,    *)
(* <<path, n, "part">> for an incomplete copy of it, <<>> for no file.     *)
(***************************************************************************)
NoFile == <<>>
Suffixes == 0..MaxFiles
In(p) == <<p, "in", 0>>
Marked(p) == <<p, "mark", 0>>
Moved(p, k) == <<p, "move", k>>
Locs == {In(p) : p \in Paths} \cup {Marked(p) : p \in Paths}
          \cup {Moved(p, k) : p \in Paths, k \in Suffixes}
Partial(c) == <<c[1], c[2], "part">>
\* st_size: a complete file and an incomplete copy of it differ in size
Size(c) == IF Len(c) = 3 THEN <<c[1], c[2], "short">> ELSE c
Exists(f, l) == f[l] # NoFile

(***************************************************************************)
(* FolderMonitor._get_unique_filename: the base name, else the first       *)
(* '_k' name that does not exist in the move directory.                    *)
(***************************************************************************)
FreeSuffixes(f, p) == {k \in Suffixes : ~Exists(f, Moved(p, k))}
get_unique_filename(f, p) ==
    Moved(p, CHOOSE k \in FreeSuffixes(f, p) : \A j \in FreeSuffixes(f, p) : k <= j)

(***************************************************************************)
(* FolderMonitor._transfer_file_safely(src, dst) on filesystem f.  x names *)
(* which of its system calls fail: mkdir, rename, unlink, mark (the rename *)
(* to '.processed') and cleanup (the unlink of a failed copy) are TRUE     *)
(* when the call succeeds; copy is "ok", "raise" (copy2 raises, nothing    *)
(* written), "partial" (copy2 raises, an incomplete file is left) or       *)
(* "short" (copy2 returns, the copy is smaller than the source).           *)
(* The result is the filesystem after the call and the value returned.     *)
(***************************************************************************)
AllFaults ==
    [mkdir : BOOLEAN, rename : BOOLEAN, copy : {"ok", "raise", "partial", "short"},
     unlink : BOOLEAN, mark : BOOLEAN, cleanup : BOOLEAN]
\* one record for each run of the function: a call that is not reached, or
\* whose outcome is not looked at, is listed as succeeding
Faults ==
    {x \in AllFaults :
        /\ ~x.mkdir => x.rename /\ x.copy = "ok"
        /\ x.rename => x.copy = "ok"
        /\ x.copy \notin {"partial", "short"} => x.cleanup
        /\ x.copy # "ok" \/ x.rename \/ ~x.mkdir => x.unlink
        /\ x.unlink => x.mark}

\* lines 239-247: the except branch, entered with filesystem g
transfer_failed(g, dst, x) ==
    [fs  |-> IF Exists(g, dst) /\ x.cleanup THEN [g EXCEPT ![dst] = NoFile] ELSE g,
     ret |-> FALSE]

\* a removal that gives up when unlink fails, without marking the source
remove_source_NoMark(g, src, x) ==
    IF x.unlink THEN [g EXCEPT ![src] = NoFile] ELSE g

\* lines 224-237: the copy is verified; remove the source, else mark it
remove_source(g, src, x) ==
    LET processed_path == Marked(src[1])
    IN  IF x.unlink THEN [g EXCEPT ![src] = NoFile]
        ELSE IF x.mark THEN [g EXCEPT ![processed_path] = g[src], ![src] = NoFile]
        ELSE g

transfer_file_safely(f, src, dst, x) ==
    IF ~x.mkdir THEN transfer_failed(f, dst, x)
    ELSE IF x.rename /\ Exists(f, src)
    THEN [fs |-> [f EXCEPT ![dst] = f[src], ![src] = NoFile], ret |-> TRUE]
    ELSE IF ~Exists(f, src) \/ x.copy = "raise" THEN transfer_failed(f, dst, x)
    ELSE IF x.copy = "partial"
    THEN transfer_failed([f EXCEPT ![dst] = Partial(f[src])], dst, x)
    ELSE LET g == [f EXCEPT ![dst] = IF x.copy = "short" THEN Partial(f[src])
                                     ELSE f[src]]
         IN  IF ~(Exists(g, dst) /\ Size(g[dst]) = Size(g[src]))
             THEN transfer_failed(g, dst, x)
             ELSE [fs |-> remove_source(g, src, x), ret |-> TRUE]

\* the processor's own relocation after a successful load,
\* shutil.move(file_path, move_dir / file_path.name): a file of that name
\* in the move directory is replaced
processor_move(f, p) == [f EXCEPT ![Moved(p, 0)] = f[In(p)], ![In(p)] = NoFile]

(***************************************************************************)
(* The watcher.                                                            *)
(***************************************************************************)
Idle == [pc |-> "idle", mon |-> 0, path |-> "", out |-> "none", file |-> NoFile]
Keys == Sessions \X Paths \X (1..MaxFiles)

(***************************************************************************)
(* FileProcessorFactory.  A file name is the sequence of its pieces: runs  *)
(* of letters or digits, "_" and ".".                                      *)
(***************************************************************************)
Name(p) ==
    CASE p = "in1/GLASSREPORT_1.csv" -> <<"GLASSREPORT", "_", "1", ".", "csv">>
      [] p = "in1/FRAMESCUTTING_1.csv" -> <<"FRAMESCUTTING", "_", "1", ".", "csv">>
      [] p = "in1/stock_list_1.csv" -> <<"stock", "_", "list", "_", "1", ".", "csv">>

\* the positions of piece x in name n
Positions(n, x) == {i \in 1..Len(n) : n[i] = x}
Last(S) == CHOOSE i \in S : \A j \in S : j <= i
First(S) == CHOOSE i \in S : \A j \in S : i <= j

\* Path(filename).stem: the name up to its last ".", unless that is its first
\* piece
stem(n) ==
    LET dots == Positions(n, ".") \ {1}
    IN  IF dots = {} THEN n ELSE SubSeq(n, 1, Last(dots) - 1)

\* str.upper() on the pieces of the model
upper(x) ==
    CASE x = "stock" -> "STOCK"
      [] x = "list" -> "LIST"
      [] x = "csv" -> "CSV"
      [] OTHER -> x

\* _extract_processor_name: base_name.split('_')[0].upper()
extract_processor_name(n) ==
    LET base_name == stem(n)
        cuts == Positions(base_name, "_")
        first == IF cuts = {} THEN base_name ELSE SubSeq(base_name, 1, First(cuts) - 1)
    IN  [i \in 1..Len(first) |-> upper(first[i])]

Processors_WithStock ==
    {<<"CASING">>, <<"CASINGCUTTING">>, <<"FRAMESCUTTING">>, <<"GLASSREPORT">>,
     <<"OPTLABEL">>, <<"ORDERSUMMARY">>, <<"PRODUCTIONREPORT">>, <<"URBANCUTTING">>,
     <<"WINDOWSENTRY">>, <<"WORKORDER2">>, <<"STOCK">>}

\* the modules processors.<NAME> that define <NAME>Processor
Processors ==
    {<<"CASING">>, <<"CASINGCUTTING">>, <<"FRAMESCUTTING">>, <<"GLASSREPORT">>,
     <<"OPTLABEL">>, <<"ORDERSUMMARY">>, <<"PRODUCTIONREPORT">>, <<"URBANCUTTING">>,
     <<"WINDOWSENTRY">>, <<"WORKORDER2">>}

\* get_processor: the processor of the file name, or ValueError
get_processor(p) ==
    IF extract_processor_name(Name(p)) \in Processors
    THEN extract_processor_name(Name(p)) ELSE <<"ValueError">>

\* FRAMESCUTTINGProcessor.process leaves the file where it is; the other
\* processors move it to move_dir themselves after a successful load.
MovesItself(p) == get_processor(p) \notin {<<"FRAMESCUTTING">>, <<"ValueError">>}

\* the outcomes of processor.process(file_path, move_dir) for content c of p;
\* "no_processor" when get_processor raised before it
ProcessOutcomes(p, c) ==
    IF get_processor(p) = <<"ValueError">> THEN {"no_processor"}
    ELSE IF c = NoFile THEN {"load_failed"}
    ELSE IF MovesItself(p) THEN {"load_failed", "move_failed", "moved"}
    ELSE {"load_failed", "loaded"}

\* thread t has returned from process_file with outcome o; the scanning
\* thread goes on with its loop
Ended(t, o) == [Idle EXCEPT !.pc = IF t = UiThread THEN "idle" ELSE "done", !.out = o]

\* the detections of path p of instance m that have not returned yet
Outstanding(m, p) ==
    {t \in Threads : /\ thr[t].mon = m /\ thr[t].path = p
                     /\ thr[t].pc \in {"spawned", "accepted", "transfer", "finally"}}

\* the counters of <<m, p>> start again when its last detection returns
CountDone(cnt, t, m, p) ==
    IF Outstanding(m, p) = {t}
    THEN [k \in Keys |-> IF k[1] = m /\ k[2] = p THEN 0 ELSE cnt[k]]
    ELSE cnt

\* a thread not started yet; threads are started in the order of their ids
FreeWorker ==
    {t \in Workers : thr[t].pc = "idle" /\ \A u \in Workers : u < t => thr[u].pc # "idle"}

\* the watcher before Tab4.start_monitoring, in a run where files are dropped
\* under the paths S
\* FolderMonitor.__init__: the path groups of self.path_settings
PathSettings == {"input1", "input2", "pdf"}

MonStart(S) ==
    /\ config = [paths |-> PathSettings, credentials |-> TRUE, error |-> "none"]
    /\ incoming = S
    /\ monitor = 0
    /\ created = 0
    /\ scanning = FALSE
    /\ scanLeft = {}
    /\ observerOn = FALSE
    /\ processed_files = [m \in Sessions |-> {}]
    /\ thr = [t \in Threads |-> Idle]
    /\ appeared = [p \in Paths |-> 0]
    /\ rejected = {}
    /\ loads = [k \in Keys |-> 0]
    /\ kept = [k \in Keys |-> 0]
    /\ seen = {}

MonInit == MonStart({"in1/GLASSREPORT_1.csv", "in1/FRAMESCUTTING_1.csv"})

NoTransfer == [pc |-> "none"]
NoLoad == [done |-> FALSE]
TrIdle == tr = NoTransfer
ProvProfiles == {"GLASSREPORT", "FRAMESCUTTING", "URBANCUTTING"}
NoProv ==
    [w \in Workers |-> [pc |-> "idle", profile |-> "", headers |-> <<>>,
                        missing |-> <<>>, ok |-> TRUE, runs |-> 0]]
ProvIdle == columns = [pr \in ProvProfiles |-> {}] /\ prov = NoProv
DbIdle == profile = "" /\ table = <<>> /\ file = <<>> /\ res = NoLoad /\ ProvIdle

Init ==
    /\ MonInit
    /\ fs = [l \in Locs |-> NoFile]
    /\ TrIdle
    /\ DbIdle

\* a file is dropped into the input directory
FileAppears(p) ==
    /\ UNCHANGED <<incoming, tr, dbVars, seen>>
    /\ p \in incoming
    /\ ~Exists(fs, In(p))
    /\ appeared[p] < MaxFiles
    /\ appeared' = [appeared EXCEPT ![p] = @ + 1]
    /\ fs' = [fs EXCEPT ![In(p)] = <<p, appeared[p] + 1>>]
    /\ UNCHANGED <<monitor, created, scanning, scanLeft, observerOn, processed_files,
                   thr, rejected, loads, kept>>

\* Tab4.start_monitoring up to the glob of FolderMonitor._process_existing_files
StartMonitoring ==
    /\ UNCHANGED <<incoming, tr, dbVars, seen>>
    /\ monitor = 0
    /\ config.paths = PathSettings
    /\ created < MaxSessions
    /\ created' = created + 1
    /\ monitor' = created + 1
    /\ scanning' = TRUE
    /\ scanLeft' = {p \in Paths : Exists(fs, In(p))}
    /\ UNCHANGED <<observerOn, processed_files, thr, fs, appeared, rejected, loads, kept>>

\* one turn of the loop of _process_existing_files: the call of process_file
\* is made by the scanning thread itself
ScanNext(p) ==
    /\ UNCHANGED <<incoming, tr, dbVars, seen>>
    /\ scanning
    /\ thr[UiThread].pc = "idle"
    /\ p \in scanLeft
    /\ scanLeft' = scanLeft \ {p}
    /\ thr' = IF Exists(fs, In(p))
              THEN [thr EXCEPT ![UiThread] = [Idle EXCEPT !.pc = "spawned",
                                                          !.mon = monitor, !.path = p]]
              ELSE thr
    /\ UNCHANGED <<monitor, created, scanning, observerOn, processed_files, fs,
                   appeared, rejected, loads, kept>>

\* the end of start(): observer.start()
ObserverStart ==
    /\ UNCHANGED <<incoming, tr, dbVars, seen>>
    /\ scanning
    /\ scanLeft = {}
    /\ thr[UiThread].pc = "idle"
    /\ scanning' = FALSE
    /\ observerOn' = TRUE
    /\ UNCHANGED <<monitor, created, scanLeft, processed_files, thr, fs, appeared,
                   rejected, loads, kept>>

\* Tab4.stop_monitoring: FolderMonitor.stop(), then the instance is dropped
StopMonitoring ==
    /\ UNCHANGED <<incoming, tr, dbVars, seen>>
    /\ monitor # 0
    /\ ~scanning
    /\ observerOn' = FALSE
    /\ monitor' = 0
    /\ UNCHANGED <<created, scanning, scanLeft, processed_files, thr, fs, appeared,
                   rejected, loads, kept>>

\* FileHandler.on_created for a .csv file: a thread is started on process_file
on_created(p) ==
    /\ UNCHANGED <<incoming, tr, dbVars, seen>>
    /\ observerOn
    /\ Exists(fs, In(p))
    /\ \E t \in FreeWorker :
          thr' = [thr EXCEPT ![t] = [Idle EXCEPT !.pc = "spawned", !.mon = monitor,
                                                 !.path = p]]
    /\ UNCHANGED <<monitor, created, scanning, scanLeft, observerOn, processed_files,
                   fs, appeared, rejected, loads, kept>>

\* FileHandler.on_moved for a .csv destination: as on_created, unless the
\* path is in the registry
on_moved(p) ==
    /\ UNCHANGED <<incoming, tr, dbVars, seen>>
    /\ observerOn
    /\ Exists(fs, In(p))
    /\ p \notin processed_files[monitor]
    /\ \E t \in FreeWorker :
          thr' = [thr EXCEPT ![t] = [Idle EXCEPT !.pc = "spawned", !.mon = monitor,
                                                 !.path = p]]
    /\ UNCHANGED <<monitor, created, scanning, scanLeft, observerOn, processed_files,
                   fs, appeared, rejected, loads, kept>>

AlreadyProcessing_Off(m, p) == FALSE

\* process_file line 136: the registry check
AlreadyProcessing(m, p) == p \in processed_files[m]

\* process_file lines 134-145, under self.lock
Check(t) ==
    /\ UNCHANGED <<incoming, tr, dbVars>>
    /\ thr[t].pc = "spawned"
    /\ LET m == thr[t].mon
           p == thr[t].path
       IN  IF AlreadyProcessing(m, p)
           THEN /\ thr' = [thr EXCEPT ![t] = Ended(t, "skip_registered")]
                /\ rejected' = rejected \cup {<<m, p>>}
                /\ UNCHANGED <<processed_files, loads, kept, seen>>
           ELSE IF ~Exists(fs, In(p))
           THEN /\ thr' = [thr EXCEPT ![t] = Ended(t, "skip_missing")]
                /\ loads' = CountDone(loads, t, m, p)
                /\ kept' = CountDone(kept, t, m, p)
                /\ UNCHANGED <<processed_files, rejected, seen>>
           ELSE /\ processed_files' = [processed_files EXCEPT ![m] = @ \cup {p}]
                /\ seen' = seen \cup {<<m, fs[In(p)]>>}
                /\ thr' = [thr EXCEPT ![t].pc = "accepted"]
                /\ UNCHANGED <<rejected, loads, kept>>
    /\ UNCHANGED <<monitor, created, scanning, scanLeft, observerOn, fs, appeared>>

\* process_file lines 147-166: processor.process(file_path, move_dir)
Process(t) ==
    /\ UNCHANGED <<incoming, tr, dbVars, seen>>
    /\ thr[t].pc = "accepted"
    /\ LET m == thr[t].mon
           p == thr[t].path
           c == fs[In(p)]
       IN  \E o \in ProcessOutcomes(p, c) :
              /\ ~config.credentials => o \in {"no_processor", "load_failed"}
              /\ fs' = IF o = "moved" THEN processor_move(fs, p) ELSE fs
              /\ thr' = [thr EXCEPT ![t].pc = IF o \in {"moved", "loaded"}
                                              THEN "transfer" ELSE "finally",
                                    ![t].out = IF o \in {"moved", "loaded"}
                                               THEN "none" ELSE "fail_process",
                                    ![t].file = c]
              /\ loads' = IF c = NoFile \/ o = "no_processor" THEN loads
                          ELSE [loads EXCEPT ![<<m, p, c[2]>>] = @ + 1]
    /\ UNCHANGED <<monitor, created, scanning, scanLeft, observerOn, processed_files,
                   appeared, rejected, kept>>

\* process_file lines 168-179: _get_unique_filename, _transfer_file_safely
Transfer(t) ==
    /\ UNCHANGED <<incoming, tr, dbVars, seen>>
    /\ thr[t].pc = "transfer"
    /\ LET p == thr[t].path
       IN  /\ FreeSuffixes(fs, p) # {}
           /\ \E x \in Faults :
                 LET r == transfer_file_safely(fs, In(p),
                                               get_unique_filename(fs, p), x)
                 IN  /\ fs' = r.fs
                     /\ thr' = [thr EXCEPT ![t].pc = "finally",
                                           ![t].out = IF r.ret THEN "ok"
                                                      ELSE "fail_transfer"]
    /\ UNCHANGED <<monitor, created, scanning, scanLeft, observerOn, processed_files,
                   appeared, rejected, loads, kept>>

\* a finally clause that leaves the path in the registry
Release_Keeps(t) ==
    /\ UNCHANGED <<incoming, tr, dbVars, seen>>
    /\ thr[t].pc = "finally"
    /\ LET m == thr[t].mon
           p == thr[t].path
       IN  /\ kept' = CountDone(kept, t, m, p)
           /\ loads' = CountDone(loads, t, m, p)
           /\ rejected' = rejected \ {<<m, p>>}
    /\ thr' = [thr EXCEPT ![t] = Ended(t, thr[t].out)]
    /\ UNCHANGED <<monitor, created, scanning, scanLeft, observerOn, fs, appeared,
                   processed_files>>

\* process_file lines 184-187: the finally clause, under self.lock
Release(t) ==
    /\ UNCHANGED <<incoming, tr, dbVars, seen>>
    /\ thr[t].pc = "finally"
    /\ LET m == thr[t].mon
           p == thr[t].path
           c == thr[t].file
       IN  /\ processed_files' = [processed_files EXCEPT ![m] = @ \ {p}]
           /\ kept' = CountDone(IF c # NoFile /\ fs[In(p)] = c
                                 THEN [kept EXCEPT ![<<m, p, c[2]>>] = @ + 1]
                                 ELSE kept, t, m, p)
           /\ loads' = CountDone(loads, t, m, p)
           /\ rejected' = rejected \ {<<m, p>>}
    /\ thr' = [thr EXCEPT ![t] = Ended(t, thr[t].out)]
    /\ UNCHANGED <<monitor, created, scanning, scanLeft, observerOn, fs, appeared>>

Next ==
    \/ \E p \in Paths : FileAppears(p)
    \/ StartMonitoring
    \/ \E p \in Paths : ScanNext(p)
    \/ ObserverStart
    \/ StopMonitoring
    \/ \E p \in Paths : on_created(p)
    \/ \E p \in Paths : on_moved(p)
    \/ \E t \in Threads : Check(t)
    \/ \E t \in Threads : Process(t)
    \/ \E t \in Threads : Transfer(t)
    \/ \E t \in Threads : Release(t)

Spec == Init /\ [][Next]_vars

(***************************************************************************)
(* Claims about the watcher.                                               *)
(***************************************************************************)
\* thread t is past the registry check of process_file and has not yet
\* released its path
InFlight(t) == thr[t].pc \in {"accepted", "transfer", "finally"}

\* C1: within one FolderMonitor, no two calls of process_file are past the
\* registry check for the same path at the same time.
C1_OneJobPerPath ==
    \A t, u \in Threads :
        t # u /\ InFlight(t) /\ InFlight(u) /\ thr[t].mon = thr[u].mon
            => thr[t].path # thr[u].path

\* a job is in flight and another detection of its path was turned away
C1_Witness ==
    \E t \in Threads : InFlight(t) /\ <<thr[t].mon, thr[t].path>> \in rejected

\* C2 as stated: among concurrent detections of one path of one watcher,
\* process() is invoked exactly once for the file.
C2_LoadedOnce == \A k \in Keys : loads[k] <= 1

\* C2 amended: among concurrent detections of one path of one watcher, every
\* call of process() for the file but the last follows a job that ended with
\* the file left under its path (so at most one job loads it at a time, and
\* it is loaded once when the first job relocates it).
C2_LoadedAgainOnlyIfKept == \A k \in Keys : loads[k] <= kept[k] + 1

\* two overlapping detections of one file: the first job left the file in
\* place, the second loaded it again
C2_Witness == \E k \in Keys : loads[k] = 2 /\ kept[k] = 1

\* C3: no two jobs for the same path are in flight at the same time, also
\* when one was started by an instance that has been stopped since.
C3_OneJobPerPathAcrossSessions ==
    \A t, u \in Threads :
        t # u /\ InFlight(t) /\ InFlight(u) => thr[t].path # thr[u].path

(***************************************************************************)
(* SpecTransfer: one call of _transfer_file_safely(src, dst), as           *)
(* process_file makes it: src is a file of the input directory, dst the    *)
(* name _get_unique_filename chose in the move directory, where files      *)
(* moved earlier under the same base name may lie, and an earlier          *)
(* '.processed' file beside the source.                                    *)
(***************************************************************************)
Contents(p) == {<<p, n>> : n \in 0..MaxFiles}

TrInit ==
    /\ MonInit
    /\ DbIdle
    /\ \E p \in Paths :
          /\ fs \in [Locs -> {NoFile} \cup Contents(p)]
          /\ Exists(fs, In(p))
          /\ \A q \in Paths \ {p}, l \in Locs : l[1] = q => ~Exists(fs, l)
          /\ FreeSuffixes(fs, p) # {}
          /\ tr = [pc |-> "call", src |-> In(p), dst |-> get_unique_filename(fs, p),
                   orig |-> fs[In(p)]]

\* process_file line 172
TransferCall ==
    /\ tr.pc = "call"
    /\ \E x \in Faults :
          LET r == transfer_file_safely(fs, tr.src, tr.dst, x)
          IN  /\ fs' = r.fs
              /\ tr' = [pc |-> "returned", src |-> tr.src, dst |-> tr.dst,
                        orig |-> tr.orig, x |-> x, ret |-> r.ret]
    /\ UNCHANGED <<monVars, dbVars>>

\* processor.process for a profile that moves the file itself, line 162
ProcessorMove ==
    /\ tr.pc = "call"
    /\ MovesItself(tr.src[1])
    /\ fs' = processor_move(fs, tr.src[1])
    /\ tr' = [tr EXCEPT !.pc = "moved", !.dst = Moved(tr.src[1], 0)]
    /\ UNCHANGED <<monVars, dbVars>>

TrNext == TransferCall \/ ProcessorMove

SpecTransfer == TrInit /\ [][TrNext]_vars

\* the call returned after rename failed and the copy was made and verified
FellBackToCopy ==
    /\ tr.pc = "returned"
    /\ tr.x.mkdir /\ ~tr.x.rename /\ tr.x.copy = "ok"

ArchiveLocs == {Moved(p, k) : p \in Paths, k \in Suffixes}

\* C11: no relocation step replaces or removes a file that is present in
\* the move directory.
C11_ArchiveKept ==
    [][\A l \in ArchiveLocs : Exists(fs, l) => fs'[l] = fs[l]]_vars

(***************************************************************************)
(* The loaders.  A row is a function from column names to values; a file   *)
(* is the sequence of its data rows as csv.DictReader yields them; a table *)
(* is the sequence of its rows in the order of the auto-increment `id`.    *)
(* Of the columns of a profile the model keeps the key column and the      *)
(* columns a loader treats apart; of the values, a few of each kind.       *)
(* " 1001" is a value with a leading blank, which MySQL's `=` tells from   *)
(* "1001".                                                                 *)
(***************************************************************************)
BatchProfiles == {"GLASSREPORT", "CASING", "CASINGCUTTING", "OPTLABEL", "URBANCUTTING"}

KeyColumn(pr) ==
    CASE pr = "GLASSREPORT" -> "order"
      [] pr = "CASING" -> "CASING_ID"
      [] pr = "CASINGCUTTING" -> "ORDER"
      [] pr = "OPTLABEL" -> "BARCODE"
      [] pr = "URBANCUTTING" -> "O"
      [] pr = "WORKORDER2" -> "ORDER #"
      [] pr = "ORDERSUMMARY" -> "ORDER#"
      [] pr = "WINDOWSENTRY" -> "ORDER_NUMBER"
      [] pr = "FRAMESCUTTING" -> "F"

OtherColumns(pr) ==
    CASE pr = "GLASSREPORT" -> {"sealed_unit_id"}
      [] pr = "CASING" -> {"ORDER NUMBER"}
      [] pr = "CASINGCUTTING" -> {"DATE"}
      [] pr = "OPTLABEL" -> {"DATE"}
      [] pr = "URBANCUTTING" -> {"A"}
      [] pr = "WORKORDER2" -> {"DESCRIPTION", "OPTIONS"}
      [] pr = "ORDERSUMMARY" -> {"CUST PO", "COMPANY"}
      [] pr = "WINDOWSENTRY" -> {"QUOTATION_NUMBER", "USER_NAME"}
      [] pr = "FRAMESCUTTING" -> {"J", "U"}

headers(pr) == {KeyColumn(pr)} \cup OtherColumns(pr)

\* the values a column takes in the files of the model
RawValues(pr, h) ==
    CASE h = "ORDER_NUMBER" -> {"", "1001"}
      [] h = "ORDER #" -> {"", "1001", "1002"}
      [] h = "ORDER#" -> {"", "1001", " 1001"}
      [] h = KeyColumn(pr) /\ pr \notin {"WORKORDER2", "WINDOWSENTRY"}
            -> {"", "1001", " 1001", "1002"}
      [] h = "sealed_unit_id" -> {"", "A1", "B2"}
      [] h = "DESCRIPTION" -> {"a"}
      [] h = "OPTIONS" -> {"", "x"}
      [] h = "CUST PO" -> {"", "x", "y"}
      [] h = "COMPANY" -> {"", "x"}
      [] h = "QUOTATION_NUMBER" -> {"", "Q1"}
      [] h = "USER_NAME" -> {"a", "b"}
      [] h = "F" -> {"", "f1"}
      [] h = "J" -> {"", "j1"}
      [] h = "U" -> {"d1"}
      [] OTHER -> {"", "d1"}

AllRawValues ==
    {"", "1001", " 1001", "1002", "A1", "B2", "a", "x", "y", "Q1", "b", "d1", "f1", "j1"}

RawRows(pr) ==
    {r \in [headers(pr) -> AllRawValues] : \A h \in headers(pr) : r[h] \in RawValues(pr, h)}

Files(pr) == UNION {[1..n -> RawRows(pr)] : n \in 0..MaxRows}

\* str.strip()
strip(v) == CASE v = " 1001" -> "1001" [] OTHER -> v

\* "Trim spaces for all columns"
trim(row) == [h \in DOMAIN row |-> strip(row[h])]

(***************************************************************************)
(* The connection (autocommit off, InnoDB): `committed` is what the table  *)
(* holds for everybody, `work` what this connection's transaction sees.    *)
(* `unread` is set when fetchone() left rows of a SELECT unread: every     *)
(* later statement of the connection then raises InternalError.            *)
(* disconnect() discards what is not committed.                            *)
(***************************************************************************)
connect(tbl) == [committed |-> tbl, work |-> tbl, unread |-> FALSE]
commit(c) == [c EXCEPT !.committed = c.work]
\* a rollback that keeps what the transaction did
rollback_Keeps(c) == [c EXCEPT !.committed = c.work]
rollback(c) == [c EXCEPT !.work = c.committed]

\* where a batch of n statements followed by a commit can raise: nowhere
\* (0), at the k-th statement, or at the commit (n + 1)
FailPoints(rows) == IF rows = <<>> THEN {0} ELSE 0..(Len(rows) + 1)

\* "if rows_to_insert: try: for complete_row in rows_to_insert:
\*  cursor.execute(insert_query, values) ... commit() except: rollback()"
batch_insert(c, rows, fail) ==
    IF rows = <<>> THEN [conn |-> c, ok |-> TRUE]
    ELSE LET n == IF fail = 0 \/ fail > Len(rows) THEN Len(rows) ELSE fail - 1
             d == [c EXCEPT !.work = @ \o SubSeq(rows, 1, n)]
         IN  IF fail = 0 THEN [conn |-> commit(d), ok |-> TRUE]
             ELSE [conn |-> rollback(d), ok |-> FALSE]

(***************************************************************************)
(* GLASSREPORTProcessor.upload_csv_data.  The read loop classifies each    *)
(* row by queries on the table and keeps every row; the rows are inserted  *)
(* after the loop.  `duplicates` and `resend_orders` hold the numbers of   *)
(* the rows that were appended to these lists.                             *)
(***************************************************************************)
\* lines 152-174
IsDuplicate(tbl, r) ==
    /\ r["order"] # "" /\ r["sealed_unit_id"] # ""
    /\ \E i \in 1..Len(tbl) : /\ tbl[i]["order"] = r["order"]
                              /\ tbl[i]["sealed_unit_id"] = r["sealed_unit_id"]

\* a resend test that does not look at is_duplicate
IsResend_Alone(tbl, r) ==
    /\ r["order"] # ""
    /\ \E i \in 1..Len(tbl) : tbl[i]["order"] = r["order"]

\* lines 176-196
IsResend(tbl, r) ==
    /\ r["order"] # "" /\ ~IsDuplicate(tbl, r)
    /\ \E i \in 1..Len(tbl) : tbl[i]["order"] = r["order"]

(***************************************************************************)
(* The watcher under a fair scheduler: a thread that has been started      *)
(* takes its steps, and start() goes through its scan and starts the       *)
(* observer.  Nothing obliges a filesystem notification to be delivered,   *)
(* a file to appear or the operator to start or stop the monitoring.       *)
(***************************************************************************)
Fairness ==
    /\ \A t \in Threads : /\ WF_vars(Check(t))
                          /\ WF_vars(Process(t))
                          /\ WF_vars(Transfer(t))
                          /\ WF_vars(Release(t))
    /\ \A p \in Paths : WF_vars(ScanNext(p))
    /\ WF_vars(ObserverStart)

SpecLive == Spec /\ Fairness

\* the file under p has not been taken up by the running instance
Waiting(p) ==
    monitor # 0 /\ Exists(fs, In(p)) /\ <<monitor, fs[In(p)]>> \notin seen

\* C15: a file that is in a monitored directory while the monitoring runs is
\* eventually taken up by process_file (or is removed, or the monitoring is
\* stopped), whether or not a notification is delivered for it.  (Runs that
\* have used up the worker threads of the model are left out.)
C15_EventuallyProcessed ==
    \A p \in Paths : Waiting(p) ~> (~Waiting(p) \/ FreeWorker = {})

\* every entry of a registry belongs to a job in flight
RegistryHeld ==
    \A m \in Sessions : \A p \in processed_files[m] :
        \E t \in Threads : InFlight(t) /\ thr[t].mon = m /\ thr[t].path = p

\* a job in flight runs to the end of process_file, also after stop() (in the
\* model it can only wait where the archive names of the model are used up)
JobsFinish ==
    \A t \in Threads :
        InFlight(t) ~> \/ ~InFlight(t)
                       \/ thr[t].pc = "transfer" /\ FreeSuffixes(fs, thr[t].path) = {}

\* once stop() has returned, no thread started by a notification passes the
\* registry check
NoJobAfterStop ==
    [][monitor = 0 => \A t \in Workers : ~InFlight(t) => ~InFlight(t)']_vars

\* C16: stopping the monitoring cancels no job in flight (each reaches the end
\* of process_file and its registry entry is released), and after stop() has
\* returned no job is started for a filesystem notification.
C16_StopKeepsJobsAndStartsNone == JobsFinish /\ []RegistryHeld /\ NoJobAfterStop

\* the path of the model whose name leads to no processor
UnknownPath == "in1/stock_list_1.csv"

\* the watcher in a run where a file with such a name is dropped, and a
\* GLASSREPORT file too
InitSchema ==
    /\ MonStart({UnknownPath, "in1/GLASSREPORT_1.csv"})
    /\ fs = [l \in Locs |-> NoFile]
    /\ TrIdle
    /\ DbIdle

SpecSchema == InitSchema /\ [][Next]_vars

\* the job of thread t is on UnknownPath and is past get_processor
PastFactory(t) == thr[t].path = UnknownPath /\ thr[t].pc \in {"transfer", "finally"}

\* the file under UnknownPath is where and what it was, and no processor has
\* been called on it
Untouched(t) ==
    /\ thr[t].file # NoFile
    /\ fs[In(UnknownPath)] = thr[t].file
    /\ \A l \in Locs \ {In(UnknownPath)} : fs[l] = NoFile \/ fs[l][1] # UnknownPath
    /\ \A k \in Keys : k[2] = UnknownPath => loads[k] = 0

\* the step in which thread t returns from process_file on UnknownPath
ReturnsFalse(t) ==
    PastFactory(t) /\ thr'[t].pc # thr[t].pc
        => /\ thr'[t].out = "fail_process"
           /\ thr'[t].pc \in {"idle", "done"}
           /\ UnknownPath \notin processed_files'[thr[t].mon]
           /\ monitor' = monitor /\ observerOn' = observerOn /\ scanning' = scanning

\* C17: the processor name is the part of the file's stem before its first
\* "_", upper-cased; a job on a file whose name leads to no processor goes
\* from get_processor straight to the finally clause with result False, the
\* file is left where and as it was, no processor (hence no connection) is
\* used for it, and when process_file returns the registry entry is gone and
\* the monitoring is as it was.
C17_UnknownSchema ==
    /\ [](/\ extract_processor_name(Name(UnknownPath)) = <<"STOCK">>
          /\ extract_processor_name(Name("in1/GLASSREPORT_1.csv")) = <<"GLASSREPORT">>
          /\ \A t \in Threads :
                PastFactory(t) => /\ thr[t].pc = "finally"
                                  /\ thr[t].out = "fail_process"
                                  /\ Untouched(t))
    /\ [][\A t \in Threads : ReturnsFalse(t)]_vars

\* a job on UnknownPath is in its finally clause while another file's job is
\* in flight
C17_Witness ==
    \E t, u \in Threads :
        /\ PastFactory(t) /\ thr[t].out = "fail_process"
        /\ InFlight(u) /\ thr[u].path # UnknownPath

(***************************************************************************)
(* EmailNotifier.notify_duplicate / notify_resend.  n is the state of the  *)
(* notifier: "off" (disabled, or no recipient for the table: it returns at *)
(* once), "sends", "smtp_error" (the transport fails: _send_email logs     *)
(* it), "raises" (an error inside the notifier before it sends, such as a  *)
(* recipient entry of the settings without 'email').  has_order says       *)
(* whether the entries are dicts with an 'order' item, which the notifier  *)
(* reads.  `body` is the list of entries it renders.                       *)
(***************************************************************************)
NotifierStates == {"off", "sends", "smtp_error", "raises"}

RECURSIVE unique_by_order(_, _)
\* "Deduplicate orders based on 'order' field": the first entry of each
\* order is kept
unique_by_order(entries, seen_orders) ==
    IF entries = <<>> THEN <<>>
    ELSE IF Head(entries)["order"] \in seen_orders THEN unique_by_order(Tail(entries), seen_orders)
    ELSE <<Head(entries)>> \o unique_by_order(Tail(entries),
                                              seen_orders \cup {Head(entries)["order"]})

notify(entries, has_order, n) ==
    IF n = "off" THEN [raised |-> FALSE, body |-> <<>>, sent |-> FALSE]
    ELSE IF n = "raises" \/ ~has_order THEN [raised |-> TRUE, body |-> <<>>, sent |-> FALSE]
    ELSE [raised |-> FALSE, body |-> unique_by_order(entries, {}), sent |-> n = "sends"]

RECURSIVE duplicate_entries(_, _, _)
\* GLASSREPORT lines 166-171: `duplicates`, one dict per flagged row in file
\* order
duplicate_entries(rows, dups, i) ==
    IF i > Len(rows) THEN <<>>
    ELSE (IF i \in dups
          THEN <<[order |-> rows[i]["order"],
                  sealed_unit_id |-> rows[i]["sealed_unit_id"]]>>
          ELSE <<>>) \o duplicate_entries(rows, dups, i + 1)

\* a load that leaves the rows flagged as duplicates out of the batch
GLASSREPORT_upload_SkipsFlagged(tbl, f, fail) ==
    LET c == connect(tbl)
        all == [i \in 1..Len(f) |-> trim(f[i])]
        rows == SelectSeq(all, LAMBDA r : ~IsDuplicate(c.work, r))
        b == batch_insert(c, rows, fail)
        dups == {i \in 1..Len(f) : IsDuplicate(c.work, all[i])}
    IN  [table |-> b.conn.committed, ret |-> b.ok, rows_to_insert |-> rows,
         duplicates |-> dups,
         resend_orders |-> {i \in 1..Len(f) : IsResend(c.work, all[i])},
         rendered |-> <<>>]

GLASSREPORT_upload(tbl, f, fail) ==
    LET c == connect(tbl)
        rows == [i \in 1..Len(f) |-> trim(f[i])]
        b == batch_insert(c, rows, fail)
        dups == {i \in 1..Len(f) : IsDuplicate(c.work, rows[i])}
    IN  [table |-> b.conn.committed, ret |-> b.ok, rows_to_insert |-> rows,
         duplicates |-> dups,
         resend_orders |-> {i \in 1..Len(f) : IsResend(c.work, rows[i])},
         \* what an enabled notifier renders for `duplicates` (lines 226-233)
         rendered |-> IF b.ok THEN notify(duplicate_entries(rows, dups, 1), TRUE,
                                          "sends").body
                      ELSE <<>>]

(***************************************************************************)
(* upload_csv_data of CASING, CASINGCUTTING, OPTLABEL and URBANCUTTING:    *)
(* the read loop keeps the rows whose key column is not empty after        *)
(* trimming; they are inserted after the loop.  (The lists these loaders   *)
(* build for the notification are not part of the result here, but for     *)
(* the `duplicates` of CASING.)                                            *)
(***************************************************************************)
is_casing_duplicate_AtTwo(total_count) == total_count > 1

\* CASING line 187: `if total_count > 2`
is_casing_duplicate(total_count) == total_count > 2

\* CASING lines 175-196: `duplicates`.  The CASING_IDs are taken in the order
\* of their first row in the file (the order of the dict casing_id_counts);
\* for each one whose rows in the table and in the file together are more
\* than two, an entry for every row of the file that has it.
casing_duplicates(tbl, rows) ==
    LET ids == [i \in 1..Len(rows) |-> rows[i]["CASING_ID"]]
        firsts == SelectSeq([i \in 1..Len(rows) |-> i],
                            LAMBDA i : \A j \in 1..(i - 1) : ids[j] # ids[i])
        new_count(id) == Cardinality({i \in 1..Len(rows) : ids[i] = id})
        existing_count(id) == Cardinality({j \in 1..Len(tbl) : tbl[j]["CASING_ID"] = id})
        total_count(id) == new_count(id) + existing_count(id)
        entries(id) ==
            IF is_casing_duplicate(total_count(id))
            THEN [k \in 1..new_count(id) |->
                     LET row == SelectSeq(rows, LAMBDA r : r["CASING_ID"] = id)[k]
                     IN  [order |-> row["ORDER NUMBER"], casing_id |-> id,
                          total_occurrences |-> total_count(id)]]
            ELSE <<>>
    IN  IF Len(firsts) = 0 THEN <<>>
        ELSE IF Len(firsts) = 1 THEN entries(ids[firsts[1]])
        ELSE entries(ids[firsts[1]]) \o entries(ids[firsts[2]])

keyed_upload(pr, tbl, f, fail) ==
    LET c == connect(tbl)
        rows == SelectSeq([i \in 1..Len(f) |-> trim(f[i])],
                          LAMBDA r : r[KeyColumn(pr)] # "")
        b == batch_insert(c, rows, fail)
    IN  [table |-> b.conn.committed, ret |-> b.ok, rows_to_insert |-> rows,
         duplicates |-> IF pr = "CASING" THEN casing_duplicates(c.work, rows) ELSE <<>>]

\* upload_csv_data(table_name, f) returned r, having met the failures x
Loaded(f, x, r) ==
    /\ Len(r.table) <= MaxTable
    /\ table' = r.table
    /\ file' = f
    /\ res' = [done |-> TRUE, before |-> table, x |-> x, out |-> r]
    /\ UNCHANGED <<monVars, fs, tr, profile, columns, prov>>

DbInit(profiles) ==
    /\ MonInit
    /\ fs = [l \in Locs |-> NoFile]
    /\ TrIdle
    /\ profile \in profiles
    /\ table = <<>> /\ file = <<>> /\ res = NoLoad
    /\ ProvIdle

GlassLoad ==
    /\ profile = "GLASSREPORT" /\ ~res.done
    /\ \E f \in Files(profile) :
          \E fail \in FailPoints(GLASSREPORT_upload(table, f, 0).rows_to_insert) :
              Loaded(f, fail, GLASSREPORT_upload(table, f, fail))

KeyedLoad ==
    /\ profile \in BatchProfiles \ {"GLASSREPORT"} /\ ~res.done
    /\ \E f \in Files(profile) :
          \E fail \in FailPoints(keyed_upload(profile, table, f, 0).rows_to_insert) :
              Loaded(f, fail, keyed_upload(profile, table, f, fail))

\* process(): "finally: self.disconnect()"; the next file can be loaded
Disconnect ==
    /\ res.done
    /\ file' = <<>>
    /\ res' = NoLoad
    /\ UNCHANGED <<monVars, fs, tr, profile, table, columns, prov>>

BatchNext == GlassLoad \/ KeyedLoad \/ Disconnect

SpecBatch == DbInit(BatchProfiles) /\ [][BatchNext]_vars

(***************************************************************************)
(* Claims about the batch-insert loaders.                                  *)
(***************************************************************************)
GlassLoaded == profile = "GLASSREPORT" /\ res.done

\* a row stored before the load has the order and the sealed_unit_id of r
SameOrderAndUnit(r) ==
    \E j \in 1..Len(res.before) : /\ res.before[j]["order"] = r["order"]
                                  /\ res.before[j]["sealed_unit_id"] = r["sealed_unit_id"]

\* a row stored before the load has the order of r
SameOrder(r) ==
    \E j \in 1..Len(res.before) : res.before[j]["order"] = r["order"]

\* C4 as stated: a row is Duplicate when a stored row has its order and its
\* sealed_unit_id, else Resend when a stored row has its order, else New.
C4_ByStoredRows ==
    GlassLoaded =>
        \A i \in 1..Len(file) :
            LET r == trim(file[i])
            IN  /\ i \in res.out.duplicates <=> SameOrderAndUnit(r)
                /\ i \in res.out.resend_orders <=> ~SameOrderAndUnit(r) /\ SameOrder(r)

\* C4 amended: a row is Duplicate when its order and sealed_unit_id are both
\* non-empty and a row stored before the load has both; else Resend when its
\* order is non-empty and a row stored before the load has that order; else
\* New.  No row is both Duplicate and Resend.
C4_ByStoredRowsNonEmpty ==
    GlassLoaded =>
        \A i \in 1..Len(file) :
            LET r == trim(file[i])
                dup == r["order"] # "" /\ r["sealed_unit_id"] # "" /\ SameOrderAndUnit(r)
            IN  /\ i \in res.out.duplicates <=> dup
                /\ i \in res.out.resend_orders <=> ~dup /\ r["order"] # "" /\ SameOrder(r)
                /\ ~(i \in res.out.duplicates /\ i \in res.out.resend_orders)

\* one file with a Duplicate row and a Resend row
C4_Witness ==
    /\ GlassLoaded
    /\ res.out.duplicates # {} /\ res.out.resend_orders # {}

\* C5: of two rows with the same non-empty (order, sealed_unit_id) in one
\* file loaded into an empty table, the first is New and inserted and the
\* second is Duplicate.
C5_SecondRowIsDuplicate ==
    /\ GlassLoaded /\ res.before = <<>> /\ res.out.ret
    /\ Len(file) = 2
    /\ trim(file[1])["order"] # "" /\ trim(file[1])["sealed_unit_id"] # ""
    /\ trim(file[1]) = trim(file[2])
    => /\ 1 \notin res.out.duplicates \cup res.out.resend_orders
       /\ \E j \in 1..Len(table) : table[j] = trim(file[1])
       /\ 2 \in res.out.duplicates

\* C18: a row of the file whose key is empty after trimming is not inserted:
\* the rows a load adds to the table all have a key.
C18_EmptyKeySkipped ==
    profile \in BatchProfiles /\ res.done =>
        \A j \in (Len(res.before) + 1)..Len(res.out.table) :
            res.out.table[j][KeyColumn(profile)] # ""

\* the entries of the rendered list that carry the natural key of row r
RenderedFor(r) ==
    {k \in 1..Len(res.out.rendered) :
        /\ res.out.rendered[k]["order"] = r["order"]
        /\ res.out.rendered[k]["sealed_unit_id"] = r["sealed_unit_id"]}

\* C14: after a successful GLASSREPORT load, every natural key (order,
\* sealed_unit_id) of a flagged duplicate is in the rendered list exactly once.
C14_EachKeyOnce ==
    GlassLoaded /\ res.out.ret =>
        \A i \in res.out.duplicates :
            Cardinality(RenderedFor(res.out.rows_to_insert[i])) = 1

\* C8: when an insert of the batch (or its commit) fails, upload_csv_data
\* returns False and the table is as it was before the load.
C8_BatchAtomic ==
    res.done /\ profile \in BatchProfiles /\ res.x # 0 =>
        ~res.out.ret /\ table = res.before

\* the insert of the last of several rows failed, on a table that had rows
C8_Witness ==
    /\ res.done /\ profile \in BatchProfiles
    /\ Len(res.out.rows_to_insert) > 1 /\ res.x = Len(res.out.rows_to_insert)
    /\ res.before # <<>> /\ ~res.out.ret

(***************************************************************************)
(* WORKORDER2Processor.upload_csv_data.  Values are not trimmed.  The read *)
(* loop deletes the stored rows of each key it meets and keeps the row;    *)
(* the kept rows are inserted after the loop, in the same transaction.     *)
(***************************************************************************)
\* line 143: f"{description}##{options}" if options else description
Combine(description, options) ==
    CASE options = "" -> description
      [] description = "a" /\ options = "x" -> "a##x"

\* line 131: db_columns, without OPTIONS
WorkRow(row) ==
    [h \in {"ORDER #", "DESCRIPTION"} |->
        IF h = "DESCRIPTION" THEN Combine(row["DESCRIPTION"], row["OPTIONS"])
        ELSE row[h]]

RECURSIVE work_rows(_, _, _, _)
\* lines 134-173, from row i on; rows is rows_to_insert so far
work_rows(c, f, i, rows) ==
    IF i > Len(f) THEN [conn |-> c, rows |-> rows]
    ELSE LET order_id == f[i]["ORDER #"]
             result == {j \in 1..Len(c.work) : c.work[j]["ORDER #"] = order_id}
             deleted == [c EXCEPT !.work = SelectSeq(@, LAMBDA s : s["ORDER #"] # order_id)]
         IN  IF order_id = "" THEN work_rows(c, f, i + 1, rows)
             ELSE work_rows(IF result # {} THEN deleted ELSE c, f, i + 1,
                            Append(rows, WorkRow(f[i])))

WORKORDER2_upload(tbl, f, fail) ==
    LET l == work_rows(connect(tbl), f, 1, <<>>)
        b == batch_insert(l.conn, l.rows, fail)
    IN  [table |-> b.conn.committed, ret |-> b.ok, rows_to_insert |-> l.rows]

WorkLoad ==
    /\ ~res.done
    /\ \E f \in Files(profile) :
          \E fail \in FailPoints(WORKORDER2_upload(table, f, 0).rows_to_insert) :
              Loaded(f, fail, WORKORDER2_upload(table, f, fail))

WorkNext == WorkLoad \/ Disconnect

SpecWork == DbInit({"WORKORDER2"}) /\ [][WorkNext]_vars

\* C6: after successful loads, however often a key was inserted, the table
\* holds one row for it, with the values of the row inserted last.
C6_OneRowPerKey ==
    profile = "WORKORDER2" /\ res.done /\ res.out.ret =>
        \A i \in 1..Len(file) :
            file[i]["ORDER #"] # "" =>
                LET rows == {j \in 1..Len(table) : table[j]["ORDER #"] = file[i]["ORDER #"]}
                    last == CHOOSE k \in i..Len(file) :
                                /\ file[k]["ORDER #"] = file[i]["ORDER #"]
                                /\ \A m \in (k + 1)..Len(file) :
                                      file[m]["ORDER #"] # file[i]["ORDER #"]
                IN  /\ Cardinality(rows) = 1
                    /\ \A j \in rows : table[j] = WorkRow(file[last])

(***************************************************************************)
(* ORDERSUMMARYProcessor.upload_csv_data.  Each row is looked up by its    *)
(* ORDER# as read and written at once, with the values trimmed: an insert  *)
(* when no row is found, else an update of the columns that are blank in   *)
(* the row fetchone() returned.  x.bad are the rows whose statement        *)
(* raises (the loop goes on with the next row), x.commit_fails the commit. *)
(***************************************************************************)
\* every column, blank or not
update_columns_All(existing_row) == DOMAIN existing_row

\* lines 171-180
update_columns(existing_row) == {h \in DOMAIN existing_row : existing_row[h] = ""}

RECURSIVE summary_rows(_, _, _, _)
\* lines 140-204, from row i on
summary_rows(c, f, i, bad) ==
    IF i > Len(f) THEN c
    ELSE LET order_id == f[i]["ORDER#"]
             complete_row == trim(f[i])
             w == c.work
             hits == {j \in 1..Len(w) : w[j]["ORDER#"] = order_id}
             existing_row == w[CHOOSE j \in hits : \A k \in hits : j <= k]
             cols == update_columns(existing_row)
             updated == [j \in 1..Len(w) |->
                            IF j \in hits
                            THEN [h \in DOMAIN w[j] |->
                                     IF h \in cols THEN complete_row[h] ELSE w[j][h]]
                            ELSE w[j]]
         IN  IF order_id = "" \/ c.unread \/ i \in bad
             THEN summary_rows(c, f, i + 1, bad)
             ELSE IF hits = {}
             THEN summary_rows([c EXCEPT !.work = Append(w, complete_row)], f, i + 1, bad)
             ELSE IF Cardinality(hits) > 1
             THEN summary_rows([c EXCEPT !.unread = TRUE], f, i + 1, bad)
             ELSE summary_rows([c EXCEPT !.work = updated], f, i + 1, bad)

ORDERSUMMARY_upload(tbl, f, x) ==
    LET c == summary_rows(connect(tbl), f, 1, x.bad)
    IN  IF c.unread \/ x.commit_fails
        THEN [table |-> rollback(c).committed, ret |-> FALSE]
        ELSE [table |-> commit(c).committed, ret |-> TRUE]

SummaryFaults(f) ==
    {x \in [bad : SUBSET (1..Len(f)), commit_fails : BOOLEAN] :
        \A i \in x.bad : f[i]["ORDER#"] # ""}

SummaryLoad ==
    /\ ~res.done
    /\ \E f \in Files(profile) :
          \E x \in SummaryFaults(f) : Loaded(f, x, ORDERSUMMARY_upload(table, f, x))

SummaryNext == SummaryLoad \/ Disconnect

SpecSummary == DbInit({"ORDERSUMMARY"}) /\ [][SummaryNext]_vars

SummaryLoaded == profile = "ORDERSUMMARY" /\ res.done

\* the rows of the file that were loaded with the ORDER# of stored row j
Matching(j) ==
    {i \in 1..Len(file) \ res.x.bad : file[i]["ORDER#"] = res.before[j]["ORDER#"]}

\* C7: a load never changes a column of a stored row that was not empty;
\* and when the load succeeds and one row of the file was loaded with the
\* ORDER# of a stored row, every column of the stored row that was empty
\* has the (trimmed) value of that row of the file.
C7_UpdateIfBlank ==
    SummaryLoaded =>
        /\ Len(table) >= Len(res.before)
        /\ \A j \in 1..Len(res.before) : \A h \in headers(profile) :
              /\ res.before[j][h] # "" => table[j][h] = res.before[j][h]
              /\ res.before[j][h] = "" /\ res.out.ret =>
                    \A i \in Matching(j) :
                        Matching(j) = {i} => table[j][h] = trim(file[i])[h]

\* a stored row with CUST PO set and COMPANY blank; a row of the file with
\* the same ORDER#, another CUST PO and a COMPANY: CUST PO stays, COMPANY is set
C7_Witness ==
    /\ SummaryLoaded /\ res.out.ret
    /\ \E j \in 1..Len(res.before) : \E i \in Matching(j) :
          /\ Matching(j) = {i}
          /\ res.before[j]["CUST PO"] = "x" /\ res.before[j]["COMPANY"] = ""
          /\ file[i]["CUST PO"] = "y" /\ file[i]["COMPANY"] = "x"
          /\ table[j]["CUST PO"] = "x" /\ table[j]["COMPANY"] = "x"

(***************************************************************************)
(* WINDOWSENTRYProcessor.upload_csv_data.  The key of a row is its         *)
(* ORDER_NUMBER, or its QUOTATION_NUMBER when that is empty.  The read     *)
(* loop sorts the rows into rows_to_update (the key is in the table) and   *)
(* rows_to_insert; then the updates are executed and committed, then the   *)
(* inserts are executed and committed.  x.upd and x.ins say where the two  *)
(* batches raise.                                                          *)
(***************************************************************************)
RECURSIVE windows_rows(_, _, _, _)
\* lines 128-161, from row i on
windows_rows(c, f, i, acc) ==
    IF i > Len(f) THEN [conn |-> c, rows_to_update |-> acc.upd, rows_to_insert |-> acc.ins]
    ELSE LET order_number == strip(f[i]["ORDER_NUMBER"])
             quotation_number == strip(f[i]["QUOTATION_NUMBER"])
             key_field == IF order_number # "" THEN "ORDER_NUMBER" ELSE "QUOTATION_NUMBER"
             key_value == IF order_number # "" THEN order_number ELSE quotation_number
             hits == {j \in 1..Len(c.work) : c.work[j][key_field] = key_value}
         IN  IF (order_number = "" /\ quotation_number = "") \/ c.unread
             THEN windows_rows(c, f, i + 1, acc)
             ELSE IF hits # {}
             THEN windows_rows([c EXCEPT !.unread = Cardinality(hits) > 1], f, i + 1,
                               [acc EXCEPT !.upd = Append(@, <<f[i], key_field>>)])
             ELSE windows_rows(c, f, i + 1, [acc EXCEPT !.ins = Append(@, f[i])])

\* lines 167-171: UPDATE ... SET <the other columns> WHERE key_field = value
update_row(w, u) ==
    LET row == u[1]
        key_field == u[2]
    IN  [j \in 1..Len(w) |->
            IF w[j][key_field] = row[key_field]
            THEN [h \in DOMAIN w[j] |-> IF h = key_field THEN w[j][h] ELSE row[h]]
            ELSE w[j]]

RECURSIVE update_rows(_, _, _)
\* the first n updates of rows_to_update
update_rows(w, upd, n) ==
    IF n = 0 THEN w ELSE update_row(update_rows(w, upd, n - 1), upd[n])

\* lines 164-180
batch_update(c, upd, fail) ==
    IF upd = <<>> THEN [conn |-> c, ok |-> TRUE]
    ELSE IF c.unread THEN [conn |-> rollback(c), ok |-> FALSE]
    ELSE LET n == IF fail = 0 \/ fail > Len(upd) THEN Len(upd) ELSE fail - 1
             d == [c EXCEPT !.work = update_rows(@, upd, n)]
         IN  IF fail = 0 THEN [conn |-> commit(d), ok |-> TRUE]
             ELSE [conn |-> rollback(d), ok |-> FALSE]

WINDOWSENTRY_upload(tbl, f, x) ==
    LET l == windows_rows(connect(tbl), f, 1, [upd |-> <<>>, ins |-> <<>>])
        u == batch_update(l.conn, l.rows_to_update, x.upd)
        b == batch_insert(u.conn, l.rows_to_insert, x.ins)
        r == IF u.ok THEN b ELSE u
    IN  [table |-> r.conn.committed, ret |-> r.ok,
         rows_to_update |-> l.rows_to_update, rows_to_insert |-> l.rows_to_insert]

WindowsFaults(l) ==
    {x \in [upd : FailPoints(l.rows_to_update), ins : FailPoints(l.rows_to_insert)] :
        x.upd # 0 \/ l.conn.unread => x.ins = 0}

WindowsLoad ==
    /\ ~res.done
    /\ \E f \in Files(profile) :
          \E x \in WindowsFaults(windows_rows(connect(table), f, 1,
                                              [upd |-> <<>>, ins |-> <<>>])) :
              Loaded(f, x, WINDOWSENTRY_upload(table, f, x))

WindowsNext == WindowsLoad \/ Disconnect

SpecWindows == DbInit({"WINDOWSENTRY"}) /\ [][WindowsNext]_vars

\* C9: when the insert batch of a file fails, upload_csv_data returns False
\* and the table is as it was before the load.
C9_NothingRemains ==
    profile = "WINDOWSENTRY" /\ res.done /\ res.x.ins # 0 =>
        ~res.out.ret /\ table = res.before

\* C12: a job whose load succeeded and whose file is gone from the input
\* directory and present once in the move directory returns True.
C12_ArchivedMeansSuccess ==
    \A t \in Threads :
        LET c == thr[t].file
        IN  /\ thr[t].pc = "finally" /\ thr[t].out # "fail_process"
            /\ c # NoFile
            /\ ~Exists(fs, In(thr[t].path))
            /\ Cardinality({l \in ArchiveLocs : fs[l] = c}) = 1
            => thr[t].out = "ok"

(***************************************************************************)
(* FRAMESCUTTINGProcessor.upload_csv_data.  Values are not trimmed.  The   *)
(* key of a row is its F, or its J when F is empty; a row whose key is in  *)
(* the table is a duplicate and is left out, every other row is inserted   *)
(* at once, unless the table's UNIQUE columns refuse it.  After the commit *)
(* the duplicates, a list of tuples (key_value, original_date), are handed *)
(* to notify_duplicate, outside any try block but the one of the whole     *)
(* function.                                                               *)
(***************************************************************************)
\* _create_table, line 192: the columns f and j are UNIQUE, so an INSERT whose
\* F or J is already in the table raises, and the row's except clause drops it
violates_unique(work, row) ==
    \E j \in 1..Len(work) : work[j]["F"] = row["F"] \/ work[j]["J"] = row["J"]

RECURSIVE frames_rows(_, _, _, _, _)
\* lines 118-157, from row i on; dups is `duplicates` so far
frames_rows(c, f, i, bad, dups) ==
    IF i > Len(f) THEN [conn |-> c, duplicates |-> dups]
    ELSE LET complete_row == f[i]
             key_field == IF complete_row["F"] # "" THEN "F" ELSE "J"
             key_value == complete_row[key_field]
             result == {j \in 1..Len(c.work) : c.work[j][key_field] = key_value}
             first == CHOOSE j \in result : \A k \in result : j <= k
         IN  IF i \in bad THEN frames_rows(c, f, i + 1, bad, dups)
             ELSE IF key_value # "" /\ result # {}
             THEN frames_rows(c, f, i + 1, bad,
                              Append(dups, <<i, key_value, c.work[first]["U"]>>))
             ELSE IF violates_unique(c.work, complete_row)
             THEN frames_rows(c, f, i + 1, bad, dups)
             ELSE frames_rows([c EXCEPT !.work = Append(@, complete_row)], f, i + 1,
                              bad, dups)

FRAMESCUTTING_upload(tbl, f, x) ==
    LET l == frames_rows(connect(tbl), f, 1, x.bad, <<>>)
        sent == notify(l.duplicates, FALSE, x.notifier)
    IN  IF x.commit_fails
        THEN [table |-> rollback(l.conn).committed, ret |-> FALSE, committed |-> FALSE,
              duplicates |-> l.duplicates]
        ELSE [table |-> commit(l.conn).committed,
              ret |-> l.duplicates = <<>> \/ ~sent.raised, committed |-> TRUE,
              duplicates |-> l.duplicates]

FramesFaults(f) ==
    [bad : SUBSET (1..Len(f)), commit_fails : BOOLEAN, notifier : NotifierStates]

FramesLoad ==
    /\ ~res.done
    /\ \E f \in Files(profile) :
          \E x \in FramesFaults(f) : Loaded(f, x, FRAMESCUTTING_upload(table, f, x))

FramesNext == FramesLoad \/ Disconnect

SpecFrames == DbInit({"FRAMESCUTTING"}) /\ [][FramesNext]_vars

\* C13: a load that was committed returns True, whatever the notifier does.
C13_CommittedMeansSuccess ==
    profile = "FRAMESCUTTING" /\ res.done /\ res.out.committed => res.out.ret

(***************************************************************************)
(* DatabaseHandler.upload_csv_data on a table of the 'glass' type, whose   *)
(* headers hold sealed_unit_id.  Values are not trimmed.  The key of a row *)
(* is its sealed_unit_id, looked up whatever its value; a row whose key is *)
(* in the table goes to `duplicates` as a tuple and is left out, every     *)
(* other row is inserted at once, unless the UNIQUE columns order and      *)
(* sealed_unit_id of create_table_from_csv refuse it.                      *)
(***************************************************************************)
RECURSIVE handler_rows(_, _, _, _)
\* lines 193-239, from row i on; dups is `duplicates` so far
handler_rows(c, f, i, dups) ==
    IF i > Len(f) THEN [conn |-> c, duplicates |-> dups]
    ELSE LET complete_row == f[i]
             key_value == complete_row["sealed_unit_id"]
             result == {j \in 1..Len(c.work) : c.work[j]["sealed_unit_id"] = key_value}
         IN  IF result # {}
             THEN handler_rows(c, f, i + 1, Append(dups, <<i, key_value>>))
             ELSE IF \E j \in 1..Len(c.work) : c.work[j]["order"] = complete_row["order"]
             THEN handler_rows(c, f, i + 1, dups)
             ELSE handler_rows([c EXCEPT !.work = Append(@, complete_row)], f, i + 1,
                               dups)

DatabaseHandler_upload(tbl, f, x) ==
    LET l == handler_rows(connect(tbl), f, 1, <<>>)
        sent == notify(l.duplicates, FALSE, x.notifier)
    IN  IF x.commit_fails
        THEN [table |-> rollback(l.conn).committed, ret |-> FALSE,
              duplicates |-> l.duplicates]
        ELSE [table |-> commit(l.conn).committed,
              ret |-> l.duplicates = <<>> \/ ~sent.raised,
              duplicates |-> l.duplicates]

HandlerFaults == [commit_fails : BOOLEAN, notifier : NotifierStates]

HandlerLoad ==
    /\ ~res.done
    /\ \E f \in Files(profile) :
          \E x \in HandlerFaults : Loaded(f, x, DatabaseHandler_upload(table, f, x))

HandlerNext == HandlerLoad \/ Disconnect

SpecHandler == DbInit({"GLASSREPORT"}) /\ [][HandlerNext]_vars

\* C19: a row that a load reports as a duplicate has a non-empty key; a row
\* with an empty key is not reported for a stored row with an empty key.
C19_FlaggedHasKey ==
    res.done => \A k \in 1..Len(res.out.duplicates) : res.out.duplicates[k][2] # ""

(***************************************************************************)
(* The provisioning step of upload_csv_data in GLASSREPORTProcessor and    *)
(* FRAMESCUTTINGProcessor: SHOW TABLES LIKE, then _create_table when the   *)
(* table is not there.  Each worker is a processor with a connection of    *)
(* its own, loading a file of its own; CREATE TABLE is an implicit commit, *)
(* visible to all at once.                                                 *)
(***************************************************************************)

\* upload_csv_data writes its own header line into a file that lacks it, so
\* the files of a profile are all read with the same headers (three of them
\* in the model)
HeaderList(pr) ==
    CASE pr = "GLASSREPORT" -> <<"list_date", "sealed_unit_id", "order">>
      [] pr = "FRAMESCUTTING" -> <<"F", "J", "U">>
      [] pr = "URBANCUTTING" -> <<"A", "O">>

\* the profiles whose upload_csv_data calls _verify_and_fix_schema when the
\* table is there
Reconciles(pr) == pr = "URBANCUTTING"

\* header.replace(' ', '_')
clean_header(h) == IF h = "list date" THEN "list_date" ELSE h

\* the columns of the CREATE TABLE statement of _create_table
create_columns(hs) == {"id", "created_at"} \cup {clean_header(hs[i]) : i \in 1..Len(hs)}

\* the same for URBANCUTTINGProcessor._create_table: exact header names
urban_columns(hs) == {"id"} \cup {hs[i] : i \in 1..Len(hs)}

\* _verify_and_fix_schema, lines 270-274: the headers DESCRIBE does not show
missing_columns(hs, current_columns) ==
    SelectSeq(hs, LAMBDA h : h \notin current_columns)

\* the existence check of worker w, loading a file of profile pr
ShowTables(w, pr) ==
    /\ prov[w].pc = "idle"
    /\ prov[w].runs < MaxRuns
    /\ prov' = [prov EXCEPT ![w] = [pc |-> IF columns[pr] = {} THEN "absent"
                                           ELSE IF Reconciles(pr) THEN "alter"
                                           ELSE "done",
                                    profile |-> pr, headers |-> HeaderList(pr),
                                    missing |-> IF columns[pr] # {} /\ Reconciles(pr)
                                                THEN missing_columns(HeaderList(pr),
                                                                     columns[pr])
                                                ELSE <<>>,
                                    ok |-> TRUE, runs |-> @.runs + 1]]
    /\ UNCHANGED <<monVars, fs, tr, profile, table, file, res, columns>>

\* _create_table; CREATE TABLE raises when the table is there by now,
\* _create_table returns False and so does upload_csv_data
CreateTable(w) ==
    /\ prov[w].pc = "absent"
    /\ IF columns[prov[w].profile] = {}
       THEN /\ columns' = [columns EXCEPT ![prov[w].profile] =
                                   IF prov[w].profile = "URBANCUTTING"
                                   THEN urban_columns(prov[w].headers)
                                   ELSE create_columns(prov[w].headers)]
            /\ prov' = [prov EXCEPT ![w].pc = "done"]
       ELSE /\ prov' = [prov EXCEPT ![w].pc = "done", ![w].ok = FALSE]
            /\ UNCHANGED columns
    /\ UNCHANGED <<monVars, fs, tr, profile, table, file, res>>

\* _verify_and_fix_schema, lines 276-283: one ALTER TABLE ADD; it raises when
\* the column is there by now, and the step returns False
AlterTable(w) ==
    /\ prov[w].pc = "alter"
    /\ IF prov[w].missing = <<>>
       THEN /\ prov' = [prov EXCEPT ![w].pc = "done"]
            /\ UNCHANGED columns
       ELSE IF Head(prov[w].missing) \in columns[prov[w].profile]
       THEN /\ prov' = [prov EXCEPT ![w].pc = "done", ![w].ok = FALSE]
            /\ UNCHANGED columns
       ELSE /\ columns' = [columns EXCEPT ![prov[w].profile] =
                                              @ \cup {Head(prov[w].missing)}]
            /\ prov' = [prov EXCEPT ![w].missing = Tail(@)]
    /\ UNCHANGED <<monVars, fs, tr, profile, table, file, res>>

\* the worker ends the load of this file and takes the next
NextFile(w) ==
    /\ prov[w].pc = "done"
    /\ prov' = [prov EXCEPT ![w].pc = "idle"]
    /\ UNCHANGED <<monVars, fs, tr, profile, table, file, res, columns>>

ProvNext ==
    \/ \E w \in Workers : \E pr \in ProvProfiles : ShowTables(w, pr)
    \/ \E w \in Workers : CreateTable(w)
    \/ \E w \in Workers : AlterTable(w)
    \/ \E w \in Workers : NextFile(w)

SpecProvision == DbInit({""}) /\ [][ProvNext]_vars

\* C20: the provisioning step never fails the file, and once a table is
\* there a further run of the step, by the same or by another worker, leaves
\* its columns as they are.
C20_ProvisioningIdempotent ==
    /\ [](\A w \in Workers : prov[w].pc = "done" => prov[w].ok)
    /\ [][\A pr \in ProvProfiles : columns[pr] # {} => columns'[pr] = columns[pr]]_vars

(***************************************************************************)
(* The provisioning step against a database in which the table of a        *)
(* profile may be there already, made by an earlier release or by hand,    *)
(* with any of the profile's columns.                                      *)
(***************************************************************************)
ExistingTables(pr) ==
    {{}} \cup {{"id"} \cup S : S \in SUBSET {HeaderList(pr)[i] : i \in 1..Len(HeaderList(pr))}}

InitReconcile ==
    /\ MonInit
    /\ fs = [l \in Locs |-> NoFile]
    /\ TrIdle
    /\ profile = "" /\ table = <<>> /\ file = <<>> /\ res = NoLoad
    /\ prov = NoProv
    /\ columns \in [ProvProfiles -> UNION {ExistingTables(pr) : pr \in ProvProfiles}]
    /\ \A pr \in ProvProfiles : columns[pr] \in ExistingTables(pr)

SpecReconcile == InitReconcile /\ [][ProvNext]_vars

\* the headers of the file worker w loads are all columns of its table
HasHeaders(w) ==
    \A i \in 1..Len(prov[w].headers) :
        clean_header(prov[w].headers[i]) \in columns[prov[w].profile]

\* C21: when the provisioning step of a load has succeeded, the table has a
\* column for every header of the profile.
C21_ColumnsCoverHeaders ==
    \A w \in Workers : prov[w].pc = "done" /\ prov[w].ok => HasHeaders(w)

(***************************************************************************)
(* One call of processor.process(file_path, move_dir), as process_file     *)
(* makes it, with the connection it opens: connect(), upload_csv_data,     *)
(* the processor's own move, the finally clause with disconnect(), and the *)
(* watcher's transfer step that follows a True.  res.open counts the live  *)
(* connections the job holds, res.tried the failed attempts of the         *)
(* connect() call under way.                                               *)
(***************************************************************************)
JobProfiles == {"GLASSREPORT", "CASING", "FRAMESCUTTING"}

\* CASINGProcessor.connect: max_retries
max_retries == 3

\* the attempts one call of connect() makes at most: the loop of CASING,
\* URBANCUTTING and WINDOWSENTRY, the single try of the other processors
attempts(pr) ==
    IF pr \in {"CASING", "URBANCUTTING", "WINDOWSENTRY"} THEN max_retries ELSE 1

NewJob == [pc |-> "connect", tried |-> <<>>, open |-> 0, opened |-> 0, ret |-> FALSE,
           exit |-> "none"]

disconnect_Leaves(open) == open

\* disconnect(): closes the connection when there is one and it is live
disconnect(open) == 0

\* one attempt of connect(): "live", "error" (mysql.connector.Error, logged)
\* or "not_connected" (an object that is not connected, no exception); the
\* call is the one of process() or the one at the top of upload_csv_data
ConnectAttempt(o) ==
    /\ res.pc \in {"connect", "reconnect"}
    /\ LET tried == Append(res.tried, o)
       IN  res' = IF o = "live"
                  THEN [res EXCEPT !.pc = "upload", !.open = @ + 1, !.opened = @ + 1]
                  ELSE IF Len(tried) >= attempts(profile)
                  THEN [res EXCEPT !.pc = "finally", !.tried = tried,
                                   !.exit = "failed_connect"]
                  ELSE [res EXCEPT !.tried = tried]
    /\ UNCHANGED <<monVars, fs, tr, profile, table, file, columns, prov>>

\* upload_csv_data; "lost" is the server dropping the connection before the
\* check at its top, which then calls connect() again
Upload(o) ==
    /\ res.pc = "upload"
    /\ o = "lost" => res.opened < 2
    /\ res' = CASE o = "lost" -> [res EXCEPT !.pc = "reconnect", !.open = 0,
                                             !.tried = <<>>]
                [] o = "ok" -> [res EXCEPT !.pc = IF profile = "FRAMESCUTTING"
                                                 THEN "finally" ELSE "move",
                                          !.ret = TRUE, !.exit = "loaded"]
                [] OTHER -> [res EXCEPT !.pc = "finally", !.exit = o]
    /\ UNCHANGED <<monVars, fs, tr, profile, table, file, columns, prov>>

UploadOutcomes == {"ok", "lost", "failed_provisioning", "failed_batch", "exception"}

\* the shutil.move of process()
Move(ok) ==
    /\ res.pc = "move"
    /\ res' = [res EXCEPT !.pc = "finally", !.ret = ok,
                          !.exit = IF ok THEN "moved" ELSE "failed_move"]
    /\ UNCHANGED <<monVars, fs, tr, profile, table, file, columns, prov>>

\* the finally clause of process(), then its return
Finally ==
    /\ res.pc = "finally"
    /\ res' = [res EXCEPT !.pc = "returned", !.open = disconnect(@)]
    /\ UNCHANGED <<monVars, fs, tr, profile, table, file, columns, prov>>

\* process_file after a True: _get_unique_filename, _transfer_file_safely
WatcherTransfer ==
    /\ res.pc = "returned" /\ res.ret
    /\ res' = [res EXCEPT !.pc = "transfer"]
    /\ UNCHANGED <<monVars, fs, tr, profile, table, file, columns, prov>>

\* process_file returns; its thread, or another, takes a file of some profile
NextJob ==
    /\ res.pc = "transfer" \/ (res.pc = "returned" /\ ~res.ret)
    /\ res' = NewJob
    /\ profile' \in JobProfiles
    /\ UNCHANGED <<monVars, fs, tr, table, file, columns, prov>>

JobInit ==
    /\ MonInit
    /\ fs = [l \in Locs |-> NoFile]
    /\ TrIdle
    /\ profile \in JobProfiles
    /\ table = <<>> /\ file = <<>> /\ res = NewJob
    /\ ProvIdle

JobNext ==
    \/ \E o \in {"live", "error", "not_connected"} : ConnectAttempt(o)
    \/ \E o \in UploadOutcomes : Upload(o)
    \/ \E ok \in BOOLEAN : Move(ok)
    \/ Finally
    \/ WatcherTransfer
    \/ NextJob

SpecJob == JobInit /\ [][JobNext]_vars

\* C22: connect() makes at most max_retries attempts, and it is only after
\* that many failed attempts that the job ends for want of a connection.
C22_BoundedRetry ==
    /\ Len(res.tried) <= max_retries
    /\ res.exit = "failed_connect" => Len(res.tried) = max_retries

\* C29: a job never holds more than one live connection, the connection is
\* closed on every exit of process(), and none is open once process() has
\* returned, so none is open during the watcher's transfer step.
C29_ConnectionClosed ==
    /\ res.open <= 1
    /\ res.pc \in {"returned", "transfer"} => res.open = 0

\* a job that connected and loaded its file is in the transfer step
C29_Witness == res.pc = "transfer" /\ res.opened >= 1 /\ res.open = 0

\* C23: whenever _transfer_file_safely returns False, the source is still
\* under its original name with its content, and nothing, whole or partial,
\* lies at the destination.
C23_FailedTransferKeepsSource ==
    tr.pc = "returned" /\ ~tr.ret =>
        /\ fs[tr.src] = tr.orig
        /\ ~Exists(fs, tr.dst)

\* the paths of the jobs of monitor m that are between the registration and
\* the return of process_file
Running(m) == {thr[t].path : t \in {u \in Threads : InFlight(u) /\ thr[u].mon = m}}

\* C24: the registry of a monitor holds exactly the paths of its jobs in
\* flight, so a path is out of it when process_file returns, on every exit,
\* and it is empty when no job runs; a call that is rejected at the registry
\* check or for a missing file leaves the registry as it was.
C24_RegistryReleased ==
    /\ [](\A m \in Sessions : processed_files[m] = Running(m))
    /\ [][\A t \in Threads :
             thr[t].pc = "spawned" /\ thr'[t].pc \notin {"spawned", "accepted"}
                => processed_files' = processed_files]_vars

\* a job ended with a failed transfer, and no path is registered
C24_Witness ==
    /\ \E t \in Threads : ~InFlight(t) /\ thr[t].out = "fail_transfer"
    /\ \A m \in Sessions : processed_files[m] = {}

(***************************************************************************)
(* SpecSteps: _transfer_file_safely(src, dst) one system call at a time.   *)
(* tr.pc is the call about to be made, tr.log the calls made so far with   *)
(* their outcomes; "verify" is the size comparison, "except" the clean-up  *)
(* of the except branch.                                                   *)
(***************************************************************************)
StepOutcomes(pc) ==
    CASE pc = "copy" -> {"ok", "raise", "partial", "short"}
      [] pc \in {"mkdir", "rename", "unlink", "mark", "except"} -> {"ok", "fail"}
      [] OTHER -> {}

next_step_DeleteFirst(pc, o) ==
    CASE pc = "mkdir" -> IF o = "ok" THEN "rename" ELSE "except"
      [] pc = "rename" -> IF o = "ok" THEN "return_true" ELSE "unlink"
      [] pc = "unlink" -> "copy"
      [] pc = "copy" -> IF o \in {"ok", "short"} THEN "verify" ELSE "except"
      [] pc = "verify" -> IF o = "ok" THEN "return_true" ELSE "except"
      [] OTHER -> "return_false"

\* the control flow of _transfer_file_safely: the call that follows call pc
\* when its outcome is o
next_step(pc, o) ==
    CASE pc = "mkdir" -> IF o = "ok" THEN "rename" ELSE "except"
      [] pc = "rename" -> IF o = "ok" THEN "return_true" ELSE "copy"
      [] pc = "copy" -> IF o \in {"ok", "short"} THEN "verify" ELSE "except"
      [] pc = "verify" -> IF o = "ok" THEN "unlink" ELSE "except"
      [] pc = "unlink" -> IF o = "ok" THEN "return_true" ELSE "mark"
      [] pc = "mark" -> "return_true"
      [] pc = "except" -> "return_false"

\* what call pc with outcome o does to filesystem f
step_effect(f, pc, o, src, dst) ==
    CASE pc = "rename" /\ o = "ok" -> [f EXCEPT ![dst] = f[src], ![src] = NoFile]
      [] pc = "copy" /\ o = "ok" -> [f EXCEPT ![dst] = f[src]]
      [] pc = "copy" /\ o \in {"partial", "short"} -> [f EXCEPT ![dst] = Partial(f[src])]
      [] pc = "unlink" /\ o = "ok" -> [f EXCEPT ![src] = NoFile]
      [] pc = "mark" /\ o = "ok" -> [f EXCEPT ![Marked(src[1])] = f[src], ![src] = NoFile]
      [] pc = "except" /\ o = "ok" -> [f EXCEPT ![dst] = NoFile]
      [] OTHER -> f

StepsInit ==
    /\ MonInit
    /\ DbIdle
    /\ \E p \in Paths :
          /\ fs \in [Locs -> {NoFile} \cup Contents(p)]
          /\ Exists(fs, In(p))
          /\ \A q \in Paths \ {p}, l \in Locs : l[1] = q => ~Exists(fs, l)
          /\ FreeSuffixes(fs, p) # {}
          /\ tr = [pc |-> "mkdir", src |-> In(p), dst |-> get_unique_filename(fs, p),
                   orig |-> fs[In(p)], log |-> <<>>]

\* one system call of the transfer
TransferStep ==
    /\ \E o \in StepOutcomes(tr.pc) :
          \* a clean-up that finds nothing at dst makes no call
          /\ tr.pc = "except" /\ ~Exists(fs, tr.dst) => o = "ok"
          /\ fs' = step_effect(fs, tr.pc, o, tr.src, tr.dst)
          /\ tr' = [tr EXCEPT !.pc = next_step(tr.pc, o),
                              !.log = Append(@, <<tr.pc, o>>)]
    /\ UNCHANGED <<monVars, dbVars>>

\* lines 220-222: dst.exists() and the two sizes
VerifyStep ==
    /\ tr.pc = "verify"
    /\ LET o == IF Exists(fs, tr.dst) /\ Size(fs[tr.dst]) = Size(fs[tr.src])
                THEN "ok" ELSE "fail"
       IN  tr' = [tr EXCEPT !.pc = next_step(tr.pc, o),
                            !.log = Append(@, <<tr.pc, o>>)]
    /\ UNCHANGED <<monVars, fs, dbVars>>

StepsNext == TransferStep \/ VerifyStep

SpecSteps == StepsInit /\ [][StepsNext]_vars

\* call c was made, with outcome o, before the i-th entry of the log
Before(i, c, o) == \E j \in 1..(i - 1) : tr.log[j] = <<c, o>>

\* C25: the calls of a transfer are made in the order of its state machine:
\* the rename comes before any other call on the files and nothing is
\* copied after it succeeded; the copy is made only after the rename
\* failed, the unlink of the source only after the copy was verified, the
\* rename to '.processed' only after the unlink failed.
C25_StepOrder ==
    \A i \in 1..Len(tr.log) :
        LET c == tr.log[i][1]
        IN  /\ c \in {"copy", "verify", "unlink", "mark"} => Before(i, "rename", "fail")
            /\ c \in {"unlink", "mark"} => Before(i, "verify", "ok")
            /\ c = "mark" => Before(i, "unlink", "fail")
            /\ c # "mkdir" => ~Before(i, "rename", "ok")

\* a transfer went through the rename, the copy, its verification and the
\* unlink, and ended by marking the source
C25_Witness ==
    /\ tr.pc = "return_true"
    /\ tr.log = <<<<"mkdir", "ok">>, <<"rename", "fail">>, <<"copy", "ok">>,
                  <<"verify", "ok">>, <<"unlink", "fail">>, <<"mark", "ok">>>>

\* the transfer returned after the copy was verified and both the unlink of
\* the source and its rename to '.processed' failed
LeftBehind ==
    /\ tr.pc \in {"return_true", "return_false"}
    /\ \E i, j \in 1..Len(tr.log) :
          tr.log[i] = <<"unlink", "fail">> /\ tr.log[j] = <<"mark", "fail">>

\* C26: a transfer that could neither delete nor mark its source after a
\* verified copy does not end as a clean success does, with True.
C26_ManualCleanupOutcome == LeftBehind => tr.pc # "return_true"

\* C27: no accepted file waits for the job of another file: while a file
\* found by the startup scan has not been handed to process_file, the thread
\* that will process it is not busy with the job of another file.
C27_NoFileWaitsForAnother ==
    \A p \in scanLeft :
        scanning /\ Exists(fs, In(p)) =>
            ~(InFlight(UiThread) /\ thr[UiThread].path # p)

(***************************************************************************)
(* SpecInject: the header injection at the top of upload_csv_data, run by  *)
(* two workers on two files of different input directories.  A file is the *)
(* sequence of its lines; file[w] is the source file of worker w,          *)
(* res.base[w] its base name, res.tmp the files of tempfile.gettempdir().  *)
(* The write of the temporary file (open, the three writes, close) is one  *)
(* step.                                                                   *)
(***************************************************************************)
HeaderLine == "order_date,list_date,..."
BaseNames == {"GLASSREPORT_1.csv", "GLASSREPORT_2.csv"}
DataLines == {"r1", "r2"}

\* os.path.join(temp_dir, os.path.basename(csv_file_path) + ".tmp")
temp_path(w, base) == <<base, ".tmp">>

TempPaths == {temp_path(w, b) : w \in Workers, b \in BaseNames}

InjectInit ==
    /\ MonInit
    /\ fs = [l \in Locs |-> NoFile]
    /\ TrIdle
    /\ profile = "GLASSREPORT" /\ table = <<>>
    /\ ProvIdle
    /\ file \in [Workers -> {<<d>> : d \in DataLines}
                               \cup {<<HeaderLine, d>> : d \in DataLines}]
    /\ \E base \in [Workers -> BaseNames] :
          res = [job |-> [w \in Workers |-> [pc |-> "check", orig |-> file[w],
                                             rows |-> <<>>]],
                 base |-> base,
                 tmp |-> [t \in TempPaths |-> NoFile]]

\* lines 87-90: the first line is compared with the expected headers
CheckHeaders(w) ==
    /\ res.job[w].pc = "check"
    /\ res' = [res EXCEPT !.job[w].pc = IF file[w][1] = HeaderLine THEN "read"
                                        ELSE "write"]
    /\ UNCHANGED <<monVars, fs, tr, profile, table, file, columns, prov>>

\* lines 94-102: the temporary file is written: headers, then the lines of
\* the source
WriteTemp(w) ==
    /\ res.job[w].pc = "write"
    /\ res' = [res EXCEPT !.job[w].pc = "move",
                          !.tmp[temp_path(w, res.base[w])] = <<HeaderLine>> \o file[w]]
    /\ UNCHANGED <<monVars, fs, tr, profile, table, file, columns, prov>>

\* line 105: shutil.move(temp_path, csv_file_path); it raises when the
\* temporary file is gone, and upload_csv_data returns False
MoveTemp(w) ==
    /\ res.job[w].pc = "move"
    /\ LET t == temp_path(w, res.base[w])
       IN  IF res.tmp[t] = NoFile
           THEN /\ res' = [res EXCEPT !.job[w].pc = "failed"]
                /\ UNCHANGED file
           ELSE /\ res' = [res EXCEPT !.job[w].pc = "read", !.tmp[t] = NoFile]
                /\ file' = [file EXCEPT ![w] = res.tmp[t]]
    /\ UNCHANGED <<monVars, fs, tr, profile, table, columns, prov>>

\* lines 120-135: csv.DictReader reads the rows that follow the first line
ReadRows(w) ==
    /\ res.job[w].pc = "read"
    /\ res' = [res EXCEPT !.job[w].pc = "done", !.job[w].rows = Tail(file[w])]
    /\ UNCHANGED <<monVars, fs, tr, profile, table, file, columns, prov>>

InjectNext ==
    \E w \in Workers : CheckHeaders(w) \/ WriteTemp(w) \/ MoveTemp(w) \/ ReadRows(w)

SpecInject == InjectInit /\ [][InjectNext]_vars

\* the lines of the file worker w was given, without the header line
OwnRows(w) ==
    IF res.job[w].orig[1] = HeaderLine THEN Tail(res.job[w].orig) ELSE res.job[w].orig

\* C28: the file a worker finds after header injection and the rows it
\* loads depend only on its own file: once the headers are in place the
\* file is the header line followed by its own lines, and the rows read are
\* its own lines, whatever the other worker does, also when the two files
\* have the same base name.
C28_OwnContentOnly ==
    \A w \in Workers :
        /\ res.job[w].pc # "failed"
        /\ res.job[w].pc \in {"read", "done"} => file[w] = <<HeaderLine>> \o OwnRows(w)
        /\ res.job[w].pc = "done" => res.job[w].rows = OwnRows(w)

(***************************************************************************)
(* SpecConfig: the watcher started under any configuration: each path      *)
(* group complete or not, the mysql credentials set or not.                *)
(***************************************************************************)
ConfigInit ==
    /\ config \in [paths : SUBSET PathSettings, credentials : BOOLEAN, error : {"none"}]
    /\ incoming = {"in1/GLASSREPORT_1.csv"}
    /\ monitor = 0 /\ created = 0
    /\ scanning = FALSE /\ scanLeft = {} /\ observerOn = FALSE
    /\ processed_files = [m \in Sessions |-> {}]
    /\ thr = [t \in Threads |-> Idle]
    /\ appeared = [p \in Paths |-> 0]
    /\ rejected = {} /\ seen = {}
    /\ loads = [k \in Keys |-> 0] /\ kept = [k \in Keys |-> 0]
    /\ fs = [l \in Locs |-> NoFile]
    /\ TrIdle
    /\ profile = "" /\ table = <<>> /\ file = <<>> /\ res = NoLoad
    /\ ProvIdle

\* Tab4.start_monitoring when FolderMonitor.__init__ raises ValueError("Path
\* configuration incomplete ..."): the error is shown, Tab4.monitor stays None
StartFails ==
    /\ monitor = 0
    /\ config.paths # PathSettings
    /\ config' = [config EXCEPT !.error = "Path configuration incomplete"]
    /\ UNCHANGED <<monitor, created, scanning, scanLeft, observerOn, processed_files,
                   thr, appeared, rejected, loads, kept, incoming, seen, fs, tr,
                   profile, table, file, res, columns, prov>>

ConfigNext == StartFails \/ Next

SpecConfig == ConfigInit /\ [][ConfigNext]_vars

\* no monitor was constructed, no observer started, no file taken up
NothingStarted ==
    /\ monitor = 0 /\ created = 0
    /\ ~scanning /\ ~observerOn
    /\ thr = [t \in Threads |-> Idle]

\* C30: with a path group lacking its input or move path, or with the mysql
\* credentials missing, no monitor is ever constructed or started, no
\* observer runs and no file is taken up.
C30_ConfigErrorsFatal ==
    config.paths # PathSettings \/ ~config.credentials => NothingStarted

\* the rows of the loaded file that carry an ORDER# and whose statements
\* were not the ones that raised
Sound == {i \in 1..Len(file) : file[i]["ORDER#"] # "" /\ i \notin res.x.bad}

\* C31: in the ORDERSUMMARY load an error on a row skips that row only: when
\* the commit itself does not fail the load returns True, and every other
\* row of the file that carries an ORDER# has its (trimmed) ORDER# in the
\* table.
C31_RowErrorSkipsRow ==
    SummaryLoaded /\ ~res.x.commit_fails =>
        /\ res.out.ret
        /\ \A i \in Sound :
              \E j \in 1..Len(table) : table[j]["ORDER#"] = strip(file[i]["ORDER#"])

RECURSIVE InFileOrder(_, _)
\* the rows of w are rows of f, met in this order when f is read
InFileOrder(w, f) ==
    IF w = <<>> THEN TRUE
    ELSE IF f = <<>> THEN FALSE
    ELSE IF Head(w) = Head(f) THEN InFileOrder(Tail(w), Tail(f))
    ELSE InFileOrder(w, Tail(f))

\* the rows of the loaded WINDOWSENTRY file in the order their statements
\* were executed: the UPDATEs of lines 164-171, then the INSERTs of 183-190
Written ==
    [k \in 1..Len(res.out.rows_to_update) |-> res.out.rows_to_update[k][1]]
        \o res.out.rows_to_insert

\* C32: the rows of a file are written in file order, also when some of
\* them update stored rows and others are inserted (WINDOWSENTRY).
C32_WrittenInFileOrder ==
    profile = "WINDOWSENTRY" /\ res.done /\ res.out.ret => InFileOrder(Written, file)

(***************************************************************************)
(* SpecOdoo: OdooCsvUploader.upload, from the creation of the csv.upload   *)
(* record on.  res.state is the state of the record ("none" before it      *)
(* exists), res.remote whether the Odoo service answers, res.src where the *)
(* source file is, res.raised what upload() raised: "original" for the     *)
(* exception that failed the upload, "other" for one raised while handling *)
(* it.                                                                     *)
(***************************************************************************)
UploadOptions ==
    [auto_register_lines : BOOLEAN, delete_source : BOOLEAN,
     archive_dir : BOOLEAN, error_dir : BOOLEAN]

OdooInit ==
    /\ MonInit
    /\ fs = [l \in Locs |-> NoFile]
    /\ TrIdle
    /\ profile = "" /\ table = <<>> /\ file = <<>>
    /\ ProvIdle
    /\ \E o \in UploadOptions :
          res = [pc |-> "create", opt |-> o, state |-> "none", remote |-> TRUE,
                 src |-> "in", raised |-> "none"]

\* the Odoo service stops answering: every later call_kw raises
Unreachable ==
    /\ res.remote /\ res.pc \notin {"returned", "raised"}
    /\ res' = [res EXCEPT !.remote = FALSE]
    /\ UNCHANGED <<monVars, fs, tr, profile, table, file, columns, prov>>

\* lines 67-80: call_kw("csv.upload", "create")
CreateRecord ==
    /\ res.pc = "create"
    /\ res' = IF ~res.remote THEN [res EXCEPT !.pc = "raised", !.raised = "original"]
              ELSE [res EXCEPT !.pc = IF res.opt.auto_register_lines THEN "push"
                                      ELSE "archive",
                               !.state = IF res.opt.auto_register_lines
                                         THEN "processing" ELSE "draft"]
    /\ UNCHANGED <<monVars, fs, tr, profile, table, file, columns, prov>>

\* lines 85-93: _push_rows; ok is FALSE when the service rejects the rows
PushRows(ok) ==
    /\ res.pc = "push"
    /\ res' = [res EXCEPT !.pc = IF res.remote /\ ok THEN "mark_done" ELSE "except"]
    /\ UNCHANGED <<monVars, fs, tr, profile, table, file, columns, prov>>

\* line 94: action_mark_done_from_client
MarkDone ==
    /\ res.pc = "mark_done"
    /\ res' = IF res.remote THEN [res EXCEPT !.pc = "archive", !.state = "done"]
              ELSE [res EXCEPT !.pc = "except"]
    /\ UNCHANGED <<monVars, fs, tr, profile, table, file, columns, prov>>

\* line 95: _archive_file; ok is FALSE when archive_dir.mkdir raises
ArchiveFile(ok) ==
    /\ res.pc = "archive"
    /\ res' = IF res.opt.delete_source
              THEN [res EXCEPT !.pc = "returned", !.src = "deleted"]
              ELSE IF ~res.opt.archive_dir THEN [res EXCEPT !.pc = "returned"]
              ELSE IF ok THEN [res EXCEPT !.pc = "returned", !.src = "archive_dir"]
              ELSE [res EXCEPT !.pc = "except"]
    /\ UNCHANGED <<monVars, fs, tr, profile, table, file, columns, prov>>

\* lines 96-102: the except clause writes state 'error' to the record
MarkError ==
    /\ res.pc = "except"
    /\ res' = IF res.remote THEN [res EXCEPT !.pc = "failed_file", !.state = "error"]
              ELSE [res EXCEPT !.pc = "raised", !.raised = "other"]
    /\ UNCHANGED <<monVars, fs, tr, profile, table, file, columns, prov>>

\* lines 103-104: _handle_failed_file, then raise; o is what the move to
\* the error directory does: "moved", "mkdir_raises", or "move_fails" (both
\* shutil.move and the copy of _safe_move raise, which it swallows)
HandleFailedFile(o) ==
    /\ res.pc = "failed_file"
    /\ res' = IF res.opt.delete_source
              THEN [res EXCEPT !.pc = "raised", !.raised = "original", !.src = "deleted"]
              ELSE IF ~res.opt.error_dir \/ o = "move_fails"
              THEN [res EXCEPT !.pc = "raised", !.raised = "original"]
              ELSE IF o = "mkdir_raises"
              THEN [res EXCEPT !.pc = "raised", !.raised = "other"]
              ELSE [res EXCEPT !.pc = "raised", !.raised = "original",
                               !.src = "error_dir"]
    /\ UNCHANGED <<monVars, fs, tr, profile, table, file, columns, prov>>

OdooNext ==
    \/ Unreachable
    \/ CreateRecord
    \/ \E ok \in BOOLEAN : PushRows(ok)
    \/ MarkDone
    \/ \E ok \in BOOLEAN : ArchiveFile(ok)
    \/ MarkError
    \/ \E o \in {"moved", "mkdir_raises", "move_fails"} : HandleFailedFile(o)

SpecOdoo == OdooInit /\ [][OdooNext]_vars

\* C33: when upload() fails after the record was created, the record is in
\* state 'error', the source is in the error directory when one is
\* configured and in its place otherwise, and the exception raised is the
\* one that failed the upload.
C33_FailedUploadMarked ==
    res.pc = "raised" /\ res.state # "none" =>
        /\ res.state = "error"
        /\ res.src = IF res.opt.error_dir THEN "error_dir" ELSE "in"
        /\ res.raised = "original"

(***************************************************************************)
(* SpecNotify: the recipients of a notification.  A table name and a       *)
(* keyword are sequences of pieces ("casingcutting" is <<"casing",         *)
(* "cutting">>), so that `keyword in table_name` is the containment of one *)
(* sequence in the other.  An entry of email_settings is its address and   *)
(* the set of table types whose flag is true.                              *)
(***************************************************************************)
TableNames ==
    {<<"glass", "report">>, <<"GLASS", "report">>, <<"frame", "s", "cutting">>,
     <<"casing">>, <<"casing", "cutting">>, <<"opt", "label">>,
     <<"urban", "cutting">>, <<"windows", "entry">>, <<"rush", "glass">>}

\* str.lower()
lower(n) == [k \in 1..Len(n) |-> IF n[k] = "GLASS" THEN "glass" ELSE n[k]]

\* `keyword in table_name`
Contains(n, keyword) ==
    \E k \in 0..(Len(n) - Len(keyword)) : SubSeq(n, k + 1, k + Len(keyword)) = keyword

patterns_CasingFirst ==
    << <<"frame", {<<"frame">>, <<"frame", "report">>, <<"frame", "s", "cutting">>}>>,
       <<"glass", {<<"glass">>, <<"glass", "report">>, <<"glazing">>}>>,
       <<"rush", {<<"rush">>, <<"urgent">>}>>,
       <<"casing", {<<"casing">>}>>,
       <<"casingcutting", {<<"casing", "cutting">>}>>,
       <<"optlabel", {<<"opt", "label">>}>>,
       <<"extention", {<<"extention">>}>>,
       <<"urbancutting", {<<"urban", "cutting">>}>>,
       <<"wrapping", {<<"wrapping">>}>> >>

\* _determine_table_type: `patterns`, in the order of the dict
patterns ==
    << <<"frame", {<<"frame">>, <<"frame", "report">>, <<"frame", "s", "cutting">>}>>,
       <<"glass", {<<"glass">>, <<"glass", "report">>, <<"glazing">>}>>,
       <<"rush", {<<"rush">>, <<"urgent">>}>>,
       <<"casingcutting", {<<"casing", "cutting">>}>>,
       <<"optlabel", {<<"opt", "label">>}>>,
       <<"casing", {<<"casing">>}>>,
       <<"extention", {<<"extention">>}>>,
       <<"urbancutting", {<<"urban", "cutting">>}>>,
       <<"wrapping", {<<"wrapping">>}>> >>

RECURSIVE first_match(_, _)
\* the loop over patterns.items(); "None" when no group matches
first_match(ps, n) ==
    IF ps = <<>> THEN "None"
    ELSE IF \E keyword \in Head(ps)[2] : Contains(n, keyword) THEN Head(ps)[1]
    ELSE first_match(Tail(ps), n)

determine_table_type(table_name) == first_match(patterns, lower(table_name))

\* get_recipients_for_table: the addresses, in the order of the settings
get_recipients_for_table(email_settings, table_name) ==
    LET table_type == determine_table_type(table_name)
        subscribed == SelectSeq(email_settings, LAMBDA c : table_type \in c.flags)
    IN  IF table_type = "None" THEN <<>>
        ELSE [k \in 1..Len(subscribed) |-> subscribed[k].email]

\* notify_duplicate lines 66-72, 104: the recipients handed to _send_email
notify_duplicate(enabled, email_settings, table_name) ==
    IF ~enabled THEN <<>> ELSE get_recipients_for_table(email_settings, table_name)

Flags == {"glass", "frame", "casing", "casingcutting"}

NotifyInit ==
    /\ MonInit
    /\ fs = [l \in Locs |-> NoFile]
    /\ TrIdle
    /\ profile = "" /\ table = <<>> /\ file = <<>>
    /\ ProvIdle
    /\ \E enabled \in BOOLEAN, n \in TableNames, fa \in SUBSET Flags, fb \in SUBSET Flags :
          res = [done |-> FALSE, enabled |-> enabled, table_name |-> n,
                 email_settings |-> <<[email |-> "a@example.com", flags |-> fa],
                                      [email |-> "b@example.com", flags |-> fb]>>,
                 recipients |-> <<>>]

\* a processor calls email_notifier.notify_duplicate(table_name, ...)
Notify ==
    /\ ~res.done
    /\ res' = [res EXCEPT !.done = TRUE,
                          !.recipients = notify_duplicate(res.enabled, res.email_settings,
                                                          res.table_name)]
    /\ UNCHANGED <<monVars, fs, tr, profile, table, file, columns, prov>>

NotifyNext == Notify

SpecNotify == NotifyInit /\ [][NotifyNext]_vars

\* the groups that have a keyword contained in the lower-cased table name
Matching_groups(n) ==
    {k \in 1..Len(patterns) : \E keyword \in patterns[k][2] : Contains(lower(n), keyword)}

\* the category of the claim: the first matching group, if there is one
Category(n) ==
    IF Matching_groups(n) = {} THEN "None"
    ELSE patterns[CHOOSE k \in Matching_groups(n) :
                     \A j \in Matching_groups(n) : k <= j][1]

\* C34: a notification goes exactly to the addresses whose flag for the
\* category of the table is set, the category being the first pattern group
\* with a keyword contained in the lower-cased table name; 'casingcutting'
\* has its own category, not that of 'casing'; nothing is sent when the
\* notifier is disabled or the table matches no category.
C34_RecipientsByCategory ==
    res.done =>
        LET to == {res.recipients[k] : k \in 1..Len(res.recipients)}
            cat == Category(res.table_name)
        IN  /\ res.enabled /\ cat # "None" =>
                  to = {res.email_settings[k].email :
                          k \in {j \in 1..2 : cat \in res.email_settings[j].flags}}
            /\ ~res.enabled \/ cat = "None" => to = {}
            /\ res.table_name = <<"casing", "cutting">> /\ res.enabled =>
                  to = {res.email_settings[k].email :
                          k \in {j \in 1..2 : "casingcutting" \in res.email_settings[j].flags}}

\* a notification for casingcutting went to the one address subscribed to
\* it, and not to the address subscribed to casing
C34_Witness ==
    /\ res.done /\ res.enabled
    /\ res.table_name = <<"casing", "cutting">>
    /\ res.email_settings[1].flags = {"casing"}
    /\ res.email_settings[2].flags = {"casingcutting"}
    /\ res.recipients = <<"b@example.com">>

(***************************************************************************)
(* SpecHeaders: the header injection over the attempts made on one file.   *)
(* A failed attempt leaves the file in the input directory, where it is    *)
(* detected and processed again.  file is the sequence of its lines,       *)
(* res.orig the file as it was dropped, res.rows the rows csv.DictReader   *)
(* yielded in the last attempt.                                            *)
(***************************************************************************)
\* attempts made on one file
MaxAttempts == 3

HeaderProfiles == {"GLASSREPORT", "CASING", "CASINGCUTTING", "FRAMESCUTTING"}

\* the header line written in capitals
CapitalHeaderLine == "ORDER_DATE,LIST_DATE,..."

\* [h.lower().strip() for h in ...]
normalized(line) == IF line = CapitalHeaderLine THEN HeaderLine ELSE line

\* GLASSREPORT line 90, CASING line 103, FRAMESCUTTING line 75 (has_header = False)
has_expected_headers(pr, first_line) ==
    IF pr = "FRAMESCUTTING" THEN FALSE
    ELSE IF pr \in {"CASING", "CASINGCUTTING"}
    THEN normalized(first_line) = normalized(HeaderLine)
    ELSE first_line = HeaderLine

\* the file after the injection step
inject_headers(pr, f) ==
    IF has_expected_headers(pr, f[1]) THEN f ELSE <<HeaderLine>> \o f

\* the rows of csv.DictReader: the lines after the first; the CASING loop
\* skips a row that equals the headers
read_rows(pr, f) ==
    IF pr = "CASING"
    THEN SelectSeq(Tail(f), LAMBDA l : normalized(l) # normalized(HeaderLine))
    ELSE Tail(f)

HeadersInit ==
    /\ MonInit
    /\ fs = [l \in Locs |-> NoFile]
    /\ TrIdle
    /\ profile \in HeaderProfiles
    /\ table = <<>>
    /\ ProvIdle
    /\ file \in {<<d>> : d \in DataLines} \cup {<<HeaderLine, d>> : d \in DataLines}
                 \cup {<<CapitalHeaderLine, d>> : d \in DataLines}
    /\ res = [done |-> FALSE, attempts |-> 0, orig |-> file, rows |-> <<>>]

\* one call of upload_csv_data on the file; ok says whether the load that
\* follows the injection succeeds
Attempt(ok) ==
    /\ ~res.done /\ res.attempts < MaxAttempts
    /\ file' = inject_headers(profile, file)
    /\ res' = [res EXCEPT !.done = ok, !.attempts = @ + 1,
                          !.rows = read_rows(profile, file')]
    /\ UNCHANGED <<monVars, fs, tr, profile, table, columns, prov>>

HeadersNext == \E ok \in BOOLEAN : Attempt(ok)

SpecHeaders == HeadersInit /\ [][HeadersNext]_vars

\* C35: after any number of attempts a file that came with the header line
\* is unchanged, a file that came without one has exactly one header line
\* before its own lines, and no header line is read as a data row.
C35_HeaderOnce ==
    res.attempts > 0 =>
        /\ res.orig[1] = HeaderLine => file = res.orig
        /\ normalized(res.orig[1]) # HeaderLine => file = <<HeaderLine>> \o res.orig
        /\ \A k \in 1..Len(res.rows) : res.rows[k] # HeaderLine

\* C36: starting from an empty table and after any sequence of ORDERSUMMARY
\* loads, no two rows of the table have the same ORDER#.
C36_OneRowPerOrder ==
    profile = "ORDERSUMMARY" =>
        \A j, k \in 1..Len(table) : j # k => table[j]["ORDER#"] # table[k]["ORDER#"]

CasingRows == SelectSeq([i \in 1..Len(file) |-> trim(file[i])],
                        LAMBDA r : r["CASING_ID"] # "")

Stored(id) == Cardinality({j \in 1..Len(res.before) : res.before[j]["CASING_ID"] = id})

InFile(id) == Cardinality({i \in 1..Len(CasingRows) : CasingRows[i]["CASING_ID"] = id})

Reported(id) == SelectSeq(res.out.duplicates, LAMBDA d : d.casing_id = id)

C38_WitnessPair ==
    /\ profile = "CASING" /\ res.done /\ res.out.ret
    /\ Stored("1001") = 1 /\ InFile("1001") = 1
    /\ res.out.duplicates = <<>>

====
